---- MODULE Spec2Model ----
(***************************************************************************)
(* Verification model of the air-quality API: the adapter framework        *)
(* (apps/adapters/base.py), the adapter health row                          *)
(* (apps/adapters/models.py) and the orchestrator fan-out                   *)
(* (apps/api/orchestrator.py).                                              *)
(*                                                                         *)
(* Spec     : in-flight adapter calls (_make_request) of concurrent        *)
(*            requests against the shared AdapterStatus table.             *)
(* SpecCall : one caller making adapter calls one after the other, with    *)
(*            every upstream outcome, log failure and decode failure.      *)
(* SpecOrch : orchestrator runs (_fetch_all_current) over the five         *)
(*            registered adapters with a worker pool.                      *)
(***************************************************************************)
EXTENDS Integers, Sequences, FiniteSets, TLC

\* ---------------------------------------------------------------------
\* Program constants
\* ---------------------------------------------------------------------

\* orchestrator.py:39-45, the registered adapters in dict order
AdapterOrder == << "EPA_AIRNOW", "PURPLEAIR", "OPENWEATHERMAP", "WAQI", "AIRVISUAL" >>

Sources == { AdapterOrder[i] : i \in 1..Len(AdapterOrder) }

\* REQUIRES_API_KEY of each adapter class (True in all five)
REQUIRES_API_KEY(s) == TRUE

\* Retry(total=MAX_RETRIES) of _create_session
MAX_RETRIES == 3

\* status_forcelist of _create_session
status_forcelist == {429, 500, 502, 503, 504}

\* consecutive failures that switch is_active off (_update_status)
AUTO_DISABLE_FAILURES == 10

\* is_healthy: consecutive_failures < 5 and success_rate > 80
HEALTHY_MAX_FAILURES == 5
HEALTHY_MIN_RATE == 80

\* ---------------------------------------------------------------------
\* Bounds of the model
\* ---------------------------------------------------------------------

\* adapter calls started during one behaviour of Spec
MaxCalls == 2

\* adapter calls started during one behaviour of SpecCall
MaxSeqCalls == 1

\* orchestrator requests served one after the other in SpecOrch
MaxRuns == 2

\* adapters that receive calls in Spec and SpecCall (a prefix of AdapterOrder)
NSrc == 1

\* concurrent in-flight calls (worker threads of concurrent requests)
Threads == {1, 2}

CallSources == { AdapterOrder[i] : i \in 1..NSrc }

\* ---------------------------------------------------------------------
\* State
\* ---------------------------------------------------------------------
VARIABLES
    api_key,      \* adapter.api_key is set (settings.API_KEYS), per source
    status,       \* AdapterStatus table: source -> row, or NoRow
    clock,        \* timezone.now(), a logical instant
    call,         \* per thread: the _make_request in flight
    ncalls,       \* calls started so far
    streak,       \* per source: failed status updates since the last successful one
    saved,        \* per source: status updates completed so far
    orch,         \* the orchestrator request in progress (_fetch_all_current)
    fetch,        \* the fetch_current of an adapter in progress
    fusion,       \* the FusionEngine.blend calls of a request and their responses
    cache,        \* the cache tables: BlendedData, LocationCache, AggregatedForecast
    conv,         \* PM2.5 concentrations handed to _pm25_to_aqi and their AQI
    forecast,     \* the ForecastAggregator.aggregate_forecasts call and its buckets
    location,     \* the LocationService.reverse_geocode call and its answer
    saver,        \* concurrent blend calls on one key and the BlendedData rows
    norm          \* a normalize_data call: the upstream payload and the measurements

vars == << api_key, status, clock, call, ncalls, streak, saved, orch,
           fetch, fusion, cache, conv, forecast, location, saver, norm >>

\* the state of the adapter framework and of the orchestrator fan-out
adapter_vars == << api_key, status, clock, call, ncalls, streak, saved, orch >>

\* the state of the adapters' normalisation, the fusion engine, the caches
\* and the forecast aggregator
data_vars == << fetch, fusion, cache, conv, forecast, location, saver, norm >>

\* no fetch_current in progress
IdleFetch ==
    [pc |-> "idle", src |-> "", before |-> [exists |-> FALSE],
     payload |-> "none", result |-> "none"]

\* Python's None where a number is expected (aqi, distance_km, ...)
None == -1

\* no blend requested yet
IdleFusion ==
    [pc |-> "idle", lat |-> 0, lon |-> 0, table |-> "none", M |-> << >>,
     calls |-> 0, use_cache |-> TRUE, at |-> 0, hit |-> FALSE,
     before |-> [exists |-> FALSE], response |-> [keys |-> {}],
     prev |-> [keys |-> {}], prev_at |-> 0]

NoEntry == [exists |-> FALSE]

\* the three cache tables, empty: one BlendedData row and one
\* LocationCache row per rounded coordinate pair (unique_together), the
\* AggregatedForecast rows of the pair, and the ForecastData rows created
\* so far
EmptyCache ==
    [blended |-> NoEntry, location |-> NoEntry, aggregated |-> {},
     forecast_data |-> << >>]

\* no concentration converted yet
IdleConv == [pc |-> "idle", a |-> 0, b |-> 0, aqi_a |-> 0, aqi_b |-> 0]

\* no aggregate_forecasts call yet
IdleForecast ==
    [pc |-> "idle", calls |-> 0, forecast_list |-> << >>, use_cache |-> TRUE,
     at |-> 0, hit |-> FALSE, before |-> {}, result |-> << >>]

\* no reverse_geocode call yet
IdleLocation ==
    [pc |-> "idle", calls |-> 0, use_cache |-> TRUE, at |-> 0, hit |-> FALSE,
     fetched |-> FALSE, before |-> NoEntry, response |-> [city |-> ""],
     outcome |-> "none"]

NoRow == [exists |-> FALSE]

\* no normalize_data call yet
IdleNorm == [pc |-> "idle", source |-> "", raw |-> << >>, out |-> << >>]

\* no blend call in progress on the key, the BlendedData table empty
IdleSaver ==
    [rows |-> {}, next_id |-> 1, lock |-> 0, order |-> << >>,
     w |-> [t \in Threads |-> [pc |-> "idle", use_cache |-> TRUE, snap |-> 0]]]

\* AdapterStatus row as created by get_or_create(defaults={'is_active': True})
NewRow ==
    [exists |-> TRUE, is_active |-> TRUE, last_success_at |-> 0,
     last_failure_at |-> 0, consecutive_failures |-> 0, total_requests |-> 0,
     total_failures |-> 0, status_message |-> ""]

\* ---------------------------------------------------------------------
\* AdapterStatus.success_rate / is_healthy  (models.py:124-138)
\* ---------------------------------------------------------------------

\* success_rate > 80, with success_rate = 0 when total_requests = 0 and
\* ((total_requests - total_failures) / total_requests) * 100 otherwise.
\* The float comparison agrees with the exact one for all counters < 3000.
success_rate_above(row, pct) ==
    IF row.total_requests = 0
    THEN 0 > pct
    ELSE (row.total_requests - row.total_failures) * 100 > pct * row.total_requests

\* is_healthy with the rate test made non-strict
is_healthy_rate_inclusive(row) ==
    /\ row.is_active
    /\ row.consecutive_failures < HEALTHY_MAX_FAILURES
    /\ success_rate_above(row, HEALTHY_MIN_RATE - 1)

is_healthy(row) ==
    /\ row.is_active
    /\ row.consecutive_failures < HEALTHY_MAX_FAILURES
    /\ success_rate_above(row, HEALTHY_MIN_RATE)

\* is_available looking at the credential only
is_available_key_only(keys, table, s) ==
    IF ~REQUIRES_API_KEY(s) THEN TRUE ELSE keys[s]

\* BaseAdapter.is_available (base.py:262-274) evaluated on key and table
is_available_in(keys, table, s) ==
    IF ~REQUIRES_API_KEY(s) THEN TRUE
    ELSE IF ~keys[s] THEN FALSE
    ELSE IF table[s].exists THEN is_healthy(table[s])
    ELSE TRUE

is_available(s) == is_available_in(api_key, status, s)

\* ---------------------------------------------------------------------
\* BaseAdapter._update_status (base.py:188-215), on the row it loaded
\* ---------------------------------------------------------------------
\* update_status_row counting a failed call as a failure but not as a request
update_status_row_failure_unrequested(row, success, error_message, now) ==
    IF success
    THEN [row EXCEPT !.total_requests = @ + 1, !.last_success_at = now,
                     !.consecutive_failures = 0]
    ELSE [row EXCEPT !.last_failure_at = now, !.consecutive_failures = @ + 1,
                     !.total_failures = @ + 1,
                     !.status_message = error_message]

update_status_row(row, success, error_message, now) ==
    LET r1 == [row EXCEPT !.total_requests = @ + 1]
        r2 == IF success
              THEN [r1 EXCEPT !.last_success_at = now,
                              !.consecutive_failures = 0]
              ELSE [r1 EXCEPT !.last_failure_at = now,
                              !.consecutive_failures = @ + 1,
                              !.total_failures = @ + 1,
                              !.status_message = error_message]
    IN  IF r2.consecutive_failures >= AUTO_DISABLE_FAILURES
        THEN [r2 EXCEPT !.is_active = FALSE]
        ELSE r2

\* ---------------------------------------------------------------------
\* Health rows left in the table by earlier, completed calls
\* ---------------------------------------------------------------------

\* A history is the sequence of outcomes (TRUE = success) of the calls
\* that completed one after the other before the behaviour starts; the
\* row it leaves is computed by _update_status itself.
Failures(n) == [i \in 1..n |-> FALSE]

Successes(n) == [i \in 1..n |-> TRUE]

SeedHistories ==
    { << >>,
      Successes(1),
      Failures(1) \o Successes(4),
      Failures(1) \o Successes(5),
      Failures(5),
      Failures(8),
      Failures(9),
      Failures(10) }

RECURSIVE RowAfter(_, _)
RowAfter(h, n) ==
    IF n = 0 THEN NewRow
    ELSE update_status_row(RowAfter(h, n - 1), h[n],
                           IF h[n] THEN "" ELSE "HTTPError", n)

SeedRow(h) == IF Len(h) = 0 THEN NoRow ELSE RowAfter(h, Len(h))

RECURSIVE TrailingFailures(_, _)
TrailingFailures(h, n) ==
    IF n = 0 \/ h[n] THEN 0 ELSE 1 + TrailingFailures(h, n - 1)

\* ---------------------------------------------------------------------
\* One adapter call: BaseAdapter._make_request (base.py:71-145)
\* ---------------------------------------------------------------------

\* What one attempt of session.request meets: an HTTP status, or 0 for a
\* network error (connection refused, read timeout).
UpstreamCodes == {0, 200, 404, 429, 503}

\* The upstream of the concurrent specification: 200 or 404 at once.
PlainCodes == {200, 404}

IdleCall ==
    [pc |-> "idle", src |-> "", attempts |-> 0, code |-> 0, sent |-> << >>,
     body_ok |-> TRUE, success |-> FALSE, err |-> "", snap |-> NoRow,
     rows |-> 0, log_failed |-> FALSE, result |-> "none"]

\* urllib3 Retry.is_retry / is_exhausted under the strategy of
\* _create_session (base.py:58-63): network errors and the statuses of
\* status_forcelist are retried while fewer than `total` retries were made.
is_retryable(code) == code = 0 \/ code \in status_forcelist

\* may_retry allowing one retry more than `total`
may_retry_one_more(code, attempts_made) ==
    is_retryable(code) /\ attempts_made - 1 <= MAX_RETRIES

may_retry(code, attempts_made) ==
    is_retryable(code) /\ attempts_made - 1 < MAX_RETRIES

\* session.request (base.py:102-108) against an upstream that answers the
\* n-th attempt with codes[n]: the attempts made, the last answer, and
\* whether the call raised (RetryError, ConnectionError) or returned the
\* response.
RECURSIVE session_request(_, _)
session_request(codes, n) ==
    IF n < Len(codes) /\ may_retry(codes[n], n)
    THEN session_request(codes, n + 1)
    ELSE [attempts |-> n, code |-> codes[n], sent |-> SubSeq(codes, 1, n),
          raised |-> is_retryable(codes[n])]

\* Response.raise_for_status: 4xx and 5xx raise HTTPError
raises_for_status(code) == code >= 400 /\ code < 600

Busy(t) == call[t].pc \notin {"idle", "done"}

\* fetch_current / fetch_forecast enters _make_request (base.py:90-98).
\* _add_api_key (base.py:147-153 and the overrides) adds the credential
\* when there is one and returns; the request is sent either way.
StartCall(t, limit) ==
    /\ ~Busy(t)
    /\ ncalls < limit
    /\ \E s \in CallSources :
          call' = [call EXCEPT ![t] = [IdleCall EXCEPT !.pc = "request", !.src = s]]
    /\ ncalls' = ncalls + 1
    /\ UNCHANGED << api_key, status, clock, streak, saved, orch >>
    /\ UNCHANGED data_vars

\* session.request with its retries (base.py:102-108), the upstream codes
\* and the validity of a 2xx body drawn from the given sets.
Request(t, codeset, bodies) ==
    /\ call[t].pc = "request"
    /\ \E codes \in [1..(MAX_RETRIES + 2) -> codeset], valid \in bodies :
          LET r == session_request(codes, 1) IN
          /\ \A i \in (r.attempts + 1)..(MAX_RETRIES + 2) : codes[i] = codes[1]
          /\ (r.code # 200) => valid
          /\ call' = [call EXCEPT ![t] =
                IF r.raised
                THEN [@ EXCEPT !.attempts = r.attempts, !.code = 0, !.sent = r.sent,
                               !.pc = "except_log",
                               !.err = IF r.code = 0 THEN "ConnectionError"
                                                     ELSE "RetryError"]
                ELSE [@ EXCEPT !.attempts = r.attempts, !.code = r.code,
                               !.sent = r.sent, !.body_ok = valid, !.pc = "log"]]
    /\ UNCHANGED << api_key, status, clock, ncalls, streak, saved, orch >>
    /\ UNCHANGED data_vars

\* _log_response (base.py:155-186): RawAPIResponse.objects.create, any
\* exception of it swallowed.
\* log_response losing the response when the write fails
log_response_losing_response(c, written) ==
    [c EXCEPT !.rows = IF written THEN @ + 1 ELSE @,
              !.log_failed = @ \/ ~written,
              !.code = IF written THEN @ ELSE 0]

log_response(c, written) ==
    [c EXCEPT !.rows = IF written THEN @ + 1 ELSE @,
              !.log_failed = @ \/ ~written]

\* base.py:110-121: log the response, then raise_for_status.
LogResponse(t, writes) ==
    /\ call[t].pc = "log"
    /\ \E written \in writes :
          call' = [call EXCEPT ![t] =
                IF raises_for_status(call[t].code)
                THEN [log_response(@, written) EXCEPT !.pc = "except_log",
                                                      !.err = "HTTPError"]
                ELSE [log_response(@, written) EXCEPT !.pc = "update_read",
                                                      !.success = TRUE]]
    /\ UNCHANGED << api_key, status, clock, ncalls, streak, saved, orch >>
    /\ UNCHANGED data_vars

\* base.py:128-140: the except branch logs the error response.
ExceptLog(t, writes) ==
    /\ call[t].pc = "except_log"
    /\ \E written \in writes :
          call' = [call EXCEPT ![t] =
                [log_response(@, written) EXCEPT !.pc = "update_read",
                                                 !.success = FALSE]]
    /\ UNCHANGED << api_key, status, clock, ncalls, streak, saved, orch >>
    /\ UNCHANGED data_vars

\* _update_status, first half (base.py:191-194): get_or_create loads the
\* row of the source, inserting it with the defaults when it is missing.
StatusRead(t) ==
    /\ call[t].pc = "update_read"
    /\ LET s == call[t].src
           row == IF status[s].exists THEN status[s] ELSE NewRow
       IN  /\ status' = [status EXCEPT ![s] = row]
           /\ call' = [call EXCEPT ![t] = [@ EXCEPT !.pc = "update_save", !.snap = row]]
    /\ UNCHANGED << api_key, clock, ncalls, streak, saved, orch >>
    /\ UNCHANGED data_vars

\* What follows _update_status in _make_request: after a success
\* response.json() decodes the body (base.py:126); after a failure the call
\* returns None (base.py:145). An undecodable body raises ValueError out of
\* the call, or (requests >= 2.27) a RequestException that the except
\* branch handles: json_is_request_exception says which.
after_update(c, json_is_request_exception) ==
    LET d == [c EXCEPT !.snap = NoRow] IN
    IF ~c.success THEN [d EXCEPT !.pc = "done", !.result = "failure"]
    ELSE IF c.body_ok THEN [d EXCEPT !.pc = "done", !.result = "success"]
    ELSE IF json_is_request_exception
         THEN [d EXCEPT !.pc = "except_log", !.err = "JSONDecodeError"]
         ELSE [d EXCEPT !.pc = "done", !.result = "raised"]

\* _update_status, second half (base.py:196-212): the counters are changed
\* on the loaded object and save() writes every field of it.
StatusSave(t, libs) ==
    /\ call[t].pc = "update_save"
    /\ LET s == call[t].src IN
       /\ status' = [status EXCEPT ![s] =
              update_status_row(call[t].snap, call[t].success, call[t].err, clock)]
       /\ streak' = [streak EXCEPT ![s] = IF call[t].success THEN 0 ELSE @ + 1]
       /\ saved' = [saved EXCEPT ![s] = @ + 1]
    /\ clock' = clock + 1
    /\ \E lib \in libs :
          /\ (call[t].success /\ ~call[t].body_ok) \/ lib = FALSE
          /\ call' = [call EXCEPT ![t] = after_update(@, lib)]
    /\ UNCHANGED << api_key, ncalls, orch >>
    /\ UNCHANGED data_vars

\* ---------------------------------------------------------------------
\* AirQualityOrchestrator._fetch_all_current (orchestrator.py:109-173)
\* ---------------------------------------------------------------------

\* ThreadPoolExecutor(max_workers=4) of the current-data fan-out
CURRENT_POOL_WIDTH == 4

\* region_config['source_priority'] of the request: the lists that
\* init_data creates for US and CA (ECCC_AQHI has no registered adapter)
\* and a list an operator stored in RegionConfig.
PriorityLists ==
    { << "EPA_AIRNOW", "PURPLEAIR", "OPENWEATHERMAP", "WAQI" >>,
      << "ECCC_AQHI", "PURPLEAIR", "OPENWEATHERMAP", "WAQI" >>,
      << "WAQI", "EPA_AIRNOW" >> }

InSeq(x, q) == \E i \in 1..Len(q) : q[i] = x

\* orchestrator.py:125-129: the priority sources that have an adapter
\* and are available, in the order of the list.
RECURSIVE priority_adapters(_, _, _)
priority_adapters(prio, keys, table) ==
    IF prio = << >> THEN << >>
    ELSE LET s == Head(prio)
             rest == priority_adapters(Tail(prio), keys, table)
         IN  IF s \in Sources /\ is_available_in(keys, table, s)
             THEN << s >> \o rest
             ELSE rest

\* the remaining adapters appended without asking is_available
remaining_adapters_unchecked(i, prio, keys, table) ==
    SelectSeq(AdapterOrder, LAMBDA s : ~InSeq(s, prio))

\* orchestrator.py:131-134: the registered adapters not in the priority
\* list that are available, in the order of self.adapters.
RECURSIVE remaining_adapters(_, _, _, _)
remaining_adapters(i, prio, keys, table) ==
    IF i > Len(AdapterOrder) THEN << >>
    ELSE LET s == AdapterOrder[i]
             rest == remaining_adapters(i + 1, prio, keys, table)
         IN  IF ~InSeq(s, prio) /\ is_available_in(keys, table, s)
             THEN << s >> \o rest
             ELSE rest

active_adapters_of(prio, keys, table) ==
    priority_adapters(prio, keys, table) \o remaining_adapters(1, prio, keys, table)

\* The measurements an adapter returns when it has data: two sensors
\* from PurpleAir, one station from the others.
Records(s) ==
    IF s = "PURPLEAIR"
    THEN << [source |-> s, station |-> 1], [source |-> s, station |-> 2] >>
    ELSE << [source |-> s, station |-> 1] >>

\* How one fetch_current ends: records, nothing because the request
\* failed (_make_request returned None), or an exception after a request
\* that succeeded.
FetchOutcomes == {"data", "failed", "raise"}

\* _safe_fetch_current (orchestrator.py:163-173): what the future holds.
safe_fetch_current(s, outcome) ==
    IF outcome = "data" THEN Records(s) ELSE << >>

\* orchestrator.py:155-156: a collected result is added when it is not empty
\* a collected empty result discarding what was collected before
extend_all_data_or_abort(all_data, data) ==
    IF data # << >> THEN all_data \o data ELSE << >>

extend_all_data(all_data, data) ==
    IF data # << >> THEN all_data \o data ELSE all_data

IdleOrch ==
    [pc |-> "idle", run |-> 0, source_priority |-> << >>, active |-> << >>,
     avail |-> {}, disabled |-> {}, fut |-> << >>, outcome |-> << >>,
     result |-> << >>, completed |-> << >>, all_data |-> << >>,
     late |-> << >>, forecast_adapters |-> << >>, ffut |-> << >>,
     fresult |-> << >>, fcompleted |-> << >>, all_forecasts |-> << >>]

FutIn(states) == { i \in 1..Len(orch.fut) : orch.fut[i] \in states }

\* orchestrator.py:121-134: the call list of one request is built from
\* is_available() of every adapter (avail and disabled record what the
\* adapters answered and which rows were switched off at that moment).
\* The clock advances from one request to the next.
BuildCallList ==
    /\ orch.pc \in {"idle", "blend"}
    /\ orch.run < MaxRuns
    /\ \E prio \in PriorityLists :
          LET list == active_adapters_of(prio, api_key, status) IN
          orch' = [IdleOrch EXCEPT
                      !.pc = "fanout", !.run = orch.run + 1,
                      !.source_priority = prio, !.active = list,
                      !.avail = { s \in Sources : is_available(s) },
                      !.disabled = { s \in Sources :
                                       status[s].exists /\ ~status[s].is_active },
                      !.fut = [i \in 1..Len(list) |-> "new"],
                      !.outcome = [i \in 1..Len(list) |-> "none"],
                      !.late = [i \in 1..Len(list) |-> FALSE],
                      !.result = [i \in 1..Len(list) |-> << >>]]
    /\ clock' = clock + 1
    /\ UNCHANGED << api_key, status, call, ncalls, streak, saved >>
    /\ UNCHANGED data_vars

\* orchestrator.py:140-148: executor.submit, in the order of the list.
Submit ==
    /\ orch.pc = "fanout"
    /\ FutIn({"new"}) # {}
    /\ LET i == CHOOSE j \in FutIn({"new"}) : \A k \in FutIn({"new"}) : j <= k
       IN  orch' = [orch EXCEPT !.fut[i] = "queued"]
    /\ UNCHANGED << api_key, status, clock, call, ncalls, streak, saved >>
    /\ UNCHANGED data_vars

\* a ThreadPoolExecutor that starts a thread for every queued task
pool_always_spawns(running, max_workers) == TRUE

\* ThreadPoolExecutor(max_workers=n): a queued task is taken when fewer
\* than n threads are busy
pool_has_idle_thread(running, max_workers) == running < max_workers

\* A pool thread takes the oldest queued task; at most four run.
WorkerStart ==
    /\ orch.pc = "fanout"
    /\ FutIn({"queued"}) # {}
    /\ pool_has_idle_thread(Cardinality(FutIn({"running"})), CURRENT_POOL_WIDTH)
    /\ LET i == CHOOSE j \in FutIn({"queued"}) : \A k \in FutIn({"queued"}) : j <= k
       IN  orch' = [orch EXCEPT !.fut[i] = "running"]
    /\ UNCHANGED << api_key, status, clock, call, ncalls, streak, saved >>
    /\ UNCHANGED data_vars

\* A pool thread ends _safe_fetch_current of its adapter: the adapter call
\* has updated the health row of the source (_update_status) and the
\* future is completed with the records or with [].
WorkerFinish(i) ==
    /\ orch.pc = "fanout"
    /\ i \in FutIn({"running"})
    /\ \E o \in FetchOutcomes :
          LET s == orch.active[i]
              row == IF status[s].exists THEN status[s] ELSE NewRow
              ok == o # "failed"
          IN  /\ status' = [status EXCEPT ![s] =
                     update_status_row(row, ok, IF ok THEN "" ELSE "HTTPError", clock)]
              /\ streak' = [streak EXCEPT ![s] = IF ok THEN 0 ELSE @ + 1]
              /\ saved' = [saved EXCEPT ![s] = @ + 1]
              /\ orch' = [orch EXCEPT !.fut[i] = "finished", !.outcome[i] = o,
                                      !.result[i] = safe_fetch_current(s, o),
                                      !.completed = Append(@, i)]
    /\ UNCHANGED << api_key, clock, call, ncalls >>
    /\ UNCHANGED data_vars

\* orchestrator.py:151-159: as_completed hands over the futures in the
\* order of their completion, once every task is submitted.
Collect ==
    /\ orch.pc = "fanout"
    /\ FutIn({"new"}) = {}
    /\ orch.completed # << >>
    /\ LET i == Head(orch.completed) IN
       orch' = [orch EXCEPT !.fut[i] = "collected",
                            !.completed = Tail(@),
                            !.all_data = extend_all_data(@, orch.result[i])]
    /\ UNCHANGED << api_key, status, clock, call, ncalls, streak, saved >>
    /\ UNCHANGED data_vars

\* orchestrator.py:161 and 76-79: all_data is returned and handed to blend.
ReturnCurrent ==
    /\ orch.pc = "fanout"
    /\ FutIn({"new", "queued", "running", "finished"}) = {}
    /\ orch' = [orch EXCEPT !.pc = "blend"]
    /\ UNCHANGED << api_key, status, clock, call, ncalls, streak, saved >>
    /\ UNCHANGED data_vars

\* The health rows a deployment holds when a request arrives: an empty
\* table, or rows left by completed calls (EPA_AIRNOW switched off by ten
\* failures, WAQI at a success rate of exactly 80%).
OrchHistories ==
    { [s \in Sources |-> << >>],
      [s \in Sources |->
          CASE s = "EPA_AIRNOW" -> Failures(10)
            [] s = "WAQI" -> Failures(1) \o Successes(4)
            [] s = "PURPLEAIR" -> Successes(1)
            [] OTHER -> << >>] }

InitOrch ==
    /\ \E missing \in SUBSET {"AIRVISUAL"} :
          api_key = [s \in Sources |-> s \notin missing]
    /\ \E hs \in OrchHistories :
          /\ status = [s \in Sources |-> SeedRow(hs[s])]
          /\ streak = [s \in Sources |-> TrailingFailures(hs[s], Len(hs[s]))]
          /\ saved = [s \in Sources |-> Len(hs[s])]
    /\ clock = AUTO_DISABLE_FAILURES + 1
    /\ call = [t \in Threads |-> IdleCall]
    /\ ncalls = 0
    /\ orch = IdleOrch
    /\ fetch = IdleFetch
    /\ fusion = IdleFusion
    /\ cache = EmptyCache
    /\ conv = IdleConv
    /\ forecast = IdleForecast
    /\ location = IdleLocation
    /\ saver = IdleSaver
    /\ norm = IdleNorm

NextOrch ==
    \/ BuildCallList
    \/ Submit
    \/ WorkerStart
    \/ \E i \in 1..Len(AdapterOrder) : WorkerFinish(i)
    \/ Collect
    \/ ReturnCurrent

SpecOrch == InitOrch /\ [][NextOrch]_vars

\* ---------------------------------------------------------------------
\* One request with forecast: get_air_quality (api/orchestrator.py:47-107)
\* from the current-data fan-out to the forecast fan-out
\* ---------------------------------------------------------------------

\* ThreadPoolExecutor(max_workers=2) of the forecast fan-out
FORECAST_POOL_WIDTH == 2

\* future.result(timeout=30), in seconds
RESULT_TIMEOUT == 30

\* REQUEST_TIMEOUT of one attempt (base.py:101), in seconds
REQUEST_TIMEOUT == 10

\* A call may outlast the ceiling: it makes up to MAX_RETRIES + 1 attempts
\* of up to REQUEST_TIMEOUT seconds each (base.py:58-66, 101-108).
call_may_outlast_ceiling == (MAX_RETRIES + 1) * REQUEST_TIMEOUT > RESULT_TIMEOUT

\* orchestrator.py:182-185: the adapters asked for forecasts
FORECAST_ADAPTERS == << "EPA_AIRNOW", "OPENWEATHERMAP" >>

\* every forecast adapter asked, whatever is_available answers
all_forecast_adapters == FORECAST_ADAPTERS

\* orchestrator.py:190-191: the forecast adapters that are available
available_forecast_adapters ==
    SelectSeq(FORECAST_ADAPTERS, LAMBDA s : is_available(s))

FFutIn(states) == { i \in 1..Len(orch.ffut) : orch.ffut[i] \in states }

\* A request arrives (orchestrator.py:47-76).
RequestStart ==
    /\ orch.pc = "idle"
    /\ BuildCallList

\* calls of one request that outlast the ceiling
MaxLate == 1

\* Thirty seconds have passed since call i was started and it still runs.
CeilingExpires(i) ==
    /\ orch.pc = "fanout"
    /\ call_may_outlast_ceiling
    /\ i \in FutIn({"running"})
    /\ ~orch.late[i]
    /\ Cardinality({ j \in 1..Len(orch.late) : orch.late[j] }) < MaxLate
    /\ orch' = [orch EXCEPT !.late[i] = TRUE]
    /\ UNCHANGED << api_key, status, clock, call, ncalls, streak, saved >>
    /\ UNCHANGED data_vars

\* orchestrator.py:81-100 with include_forecast false: the current data is
\* blended (the Blend action of SpecFusion) and the response returned.
ReturnResponse ==
    /\ orch.pc = "blend"
    /\ orch' = [orch EXCEPT !.pc = "returned"]
    /\ UNCHANGED << api_key, status, clock, call, ncalls, streak, saved >>
    /\ UNCHANGED data_vars

\* orchestrator.py:81-101 and 182-198 with include_forecast true: after
\* the blend _fetch_all_forecasts submits a task for every available
\* forecast adapter.
SubmitForecasts ==
    /\ orch.pc = "blend"
    /\ LET list == available_forecast_adapters
       IN  orch' = [orch EXCEPT
                      !.pc = "forecast",
                      !.forecast_adapters = list,
                      !.ffut = [i \in 1..Len(list) |-> "queued"],
                      !.fresult = [i \in 1..Len(list) |-> "none"]]
    /\ UNCHANGED << api_key, status, clock, call, ncalls, streak, saved >>
    /\ UNCHANGED data_vars

\* A thread of the forecast pool takes the oldest queued task; at most two
\* run.
ForecastWorkerStart ==
    /\ orch.pc = "forecast"
    /\ FFutIn({"queued"}) # {}
    /\ pool_has_idle_thread(Cardinality(FFutIn({"running"})), FORECAST_POOL_WIDTH)
    /\ LET i == CHOOSE j \in FFutIn({"queued"}) : \A k \in FFutIn({"queued"}) : j <= k
       IN  orch' = [orch EXCEPT !.ffut[i] = "running"]
    /\ UNCHANGED << api_key, status, clock, call, ncalls, streak, saved >>
    /\ UNCHANGED data_vars

\* A thread ends _safe_fetch_forecast of its adapter (orchestrator.py:
\* 211-217): the request of fetch_forecast has updated the health row.
ForecastWorkerFinish(i) ==
    /\ orch.pc = "forecast"
    /\ i \in FFutIn({"running"})
    /\ \E o \in FetchOutcomes :
          LET s == orch.forecast_adapters[i]
              row == IF status[s].exists THEN status[s] ELSE NewRow
              ok == o # "failed"
          IN  /\ status' = [status EXCEPT ![s] =
                     update_status_row(row, ok, IF ok THEN "" ELSE "HTTPError", clock)]
              /\ streak' = [streak EXCEPT ![s] = IF ok THEN 0 ELSE @ + 1]
              /\ saved' = [saved EXCEPT ![s] = @ + 1]
              /\ orch' = [orch EXCEPT !.ffut[i] = "finished", !.fresult[i] = o,
                                      !.fcompleted = Append(@, i)]
    /\ UNCHANGED << api_key, clock, call, ncalls >>
    /\ UNCHANGED data_vars

\* orchestrator.py:201-207: as_completed hands over the finished futures
ForecastCollect ==
    /\ orch.pc = "forecast"
    /\ orch.fcompleted # << >>
    /\ LET i == Head(orch.fcompleted) IN
       orch' = [orch EXCEPT
                  !.ffut[i] = "collected",
                  !.fcompleted = Tail(@),
                  !.all_forecasts = IF orch.fresult[i] = "data"
                                    THEN Append(@, orch.forecast_adapters[i])
                                    ELSE @]
    /\ UNCHANGED << api_key, status, clock, call, ncalls, streak, saved >>
    /\ UNCHANGED data_vars

\* orchestrator.py:209 and 102-107: the forecasts are aggregated (the
\* AggregateForecasts action of SpecForecast) and the response returned.
ReturnForecasts ==
    /\ orch.pc = "forecast"
    /\ FFutIn({"queued", "running", "finished"}) = {}
    /\ orch' = [orch EXCEPT !.pc = "returned"]
    /\ UNCHANGED << api_key, status, clock, call, ncalls, streak, saved >>
    /\ UNCHANGED data_vars

\* every adapter has its key; the health table is empty or holds the rows
\* of OrchHistories
InitRequest ==
    /\ InitOrch
    /\ \A s \in Sources : api_key[s]

NextRequest ==
    \/ RequestStart
    \/ Submit
    \/ WorkerStart
    \/ \E i \in 1..Len(AdapterOrder) : WorkerFinish(i)
    \/ Collect
    \/ ReturnCurrent
    \/ ReturnResponse
    \/ SubmitForecasts
    \/ ForecastWorkerStart
    \/ \E i \in 1..Len(FORECAST_ADAPTERS) : ForecastWorkerFinish(i)
    \/ ForecastCollect
    \/ ReturnForecasts

SpecRequest == InitRequest /\ [][NextRequest]_vars

\* the current-data fan-out of one request, with calls that outlast thirty
\* seconds
NextCeiling ==
    \/ RequestStart
    \/ Submit
    \/ WorkerStart
    \/ \E i \in 1..Len(AdapterOrder) : CeilingExpires(i)
    \/ \E i \in 1..Len(AdapterOrder) : WorkerFinish(i)
    \/ Collect
    \/ ReturnCurrent

SpecCeiling == InitRequest /\ [][NextCeiling]_vars

\* ---------------------------------------------------------------------
\* Specifications of the adapter calls
\* ---------------------------------------------------------------------
Init ==
    /\ api_key \in [Sources -> BOOLEAN]
    /\ \A s \in Sources \ CallSources : api_key[s]
    /\ \E h \in SeedHistories :
          /\ status = [s \in Sources |-> SeedRow(h)]
          /\ streak = [s \in Sources |-> TrailingFailures(h, Len(h))]
          /\ saved = [s \in Sources |-> Len(h)]
          /\ clock = Len(h) + 1
    /\ call = [t \in Threads |-> IdleCall]
    /\ ncalls = 0
    /\ orch = IdleOrch
    /\ fetch = IdleFetch
    /\ fusion = IdleFusion
    /\ cache = EmptyCache
    /\ conv = IdleConv
    /\ forecast = IdleForecast
    /\ location = IdleLocation
    /\ saver = IdleSaver
    /\ norm = IdleNorm

\* Concurrent calls; every upstream answers 200 with a valid body or 404.
Next ==
    \E t \in Threads :
        \/ StartCall(t, MaxCalls)
        \/ Request(t, PlainCodes, {TRUE})
        \/ LogResponse(t, {TRUE})
        \/ ExceptLog(t, {TRUE})
        \/ StatusRead(t)
        \/ StatusSave(t, {FALSE})

Spec == Init /\ [][Next]_vars

\* One caller, every upstream outcome.
NextCall ==
    \/ StartCall(1, MaxSeqCalls)
    \/ Request(1, UpstreamCodes, BOOLEAN)
    \/ LogResponse(1, BOOLEAN)
    \/ ExceptLog(1, BOOLEAN)
    \/ StatusRead(1)
    \/ StatusSave(1, BOOLEAN)

SpecCall == Init /\ [][NextCall]_vars

\* The steps of the call in flight
StepCall ==
    \/ Request(1, UpstreamCodes, BOOLEAN)
    \/ LogResponse(1, BOOLEAN)
    \/ ExceptLog(1, BOOLEAN)
    \/ StatusRead(1)
    \/ StatusSave(1, BOOLEAN)

\* ---------------------------------------------------------------------
\* fetch_current of the five adapters: _make_request, then the checks of
\* fetch_current and normalize_data on the decoded body
\* ---------------------------------------------------------------------

\* fetch_current calls started during one behaviour of SpecFetch
MaxFetches == 1

\* The decoded body of a 200 answer:
\*   well_formed    the documented shape;
\*   wrong_type     a JSON array where the adapter expects an object, or an
\*                  object where it expects an array;
\*   missing_fields the documented container (with its status marker), its
\*                  entries without the documented fields;
\*   bad_items      the documented container, its entries of another JSON
\*                  type (numbers in place of objects or rows).
Payloads == {"well_formed", "wrong_type", "missing_fields", "bad_items"}

\* "undecodable" is a 200 answer whose body is not JSON.
Malformed == {"undecodable", "wrong_type", "missing_fields", "bad_items"}

\* AirNowAdapter.fetch_current / normalize_data (airnow.py:55-60, 99-182):
\* an object is not a list, [] is returned; entries without fields give a
\* station 'Unknown' with aqi None; observation.get on a number raises
\* AttributeError outside any try.
airnow_fetch_current(payload) ==
    CASE payload = "well_formed" -> "records"
      [] payload = "wrong_type" -> "empty"
      [] payload = "missing_fields" -> "records"
      [] payload = "bad_items" -> "raise"

\* PurpleAirAdapter (purpleair.py:64-69, 78-163): 'data' not in an array,
\* [] is returned; every row that cannot be read is skipped by the except
\* of the loop.
purpleair_fetch_current(payload) ==
    CASE payload = "well_formed" -> "records"
      [] payload = "wrong_type" -> "empty"
      [] payload = "missing_fields" -> "empty"
      [] payload = "bad_items" -> "empty"

\* OpenWeatherMapAdapter (openweathermap.py:49-54, 85-139): 'list' not in
\* an array, [] is returned; an entry without fields gives a record with
\* the AQI 0 of _convert_owm_aqi_to_epa(None); item.get on a number is
\* caught by the except of the loop.
openweathermap_fetch_current(payload) ==
    CASE payload = "well_formed" -> "records"
      [] payload = "wrong_type" -> "empty"
      [] payload = "missing_fields" -> "records"
      [] payload = "bad_items" -> "empty"

\* WAQIAdapter (waqi.py:47-52, 84-164): raw_data.get on an array raises
\* AttributeError in fetch_current; {'status': 'ok', 'data': {}} gives a
\* record with aqi None; data.get on a number is caught.
waqi_fetch_current(payload) ==
    CASE payload = "well_formed" -> "records"
      [] payload = "wrong_type" -> "raise"
      [] payload = "missing_fields" -> "records"
      [] payload = "bad_items" -> "empty"

\* AirVisualAdapter (airvisual.py:51-56, 62-150): raw_data.get on an array
\* raises AttributeError in fetch_current; without aqius [] is returned;
\* data.get on a number is caught.
airvisual_fetch_current(payload) ==
    CASE payload = "well_formed" -> "records"
      [] payload = "wrong_type" -> "raise"
      [] payload = "missing_fields" -> "empty"
      [] payload = "bad_items" -> "empty"

\* fetch_current of adapter s after _make_request ended with `raw`
\* ("success": the decoded body; "failure": None; "raised": the ValueError
\* of response.json() passing through).
fetch_current(s, raw, payload) ==
    CASE raw = "raised" -> "raise"
      [] raw = "failure" -> "empty"
      [] raw = "success" ->
            CASE s = "EPA_AIRNOW" -> airnow_fetch_current(payload)
              [] s = "PURPLEAIR" -> purpleair_fetch_current(payload)
              [] s = "OPENWEATHERMAP" -> openweathermap_fetch_current(payload)
              [] s = "WAQI" -> waqi_fetch_current(payload)
              [] s = "AIRVISUAL" -> airvisual_fetch_current(payload)

\* An adapter's fetch_current is called and enters _make_request.
StartFetch ==
    /\ fetch.pc \in {"idle", "returned"}
    /\ ~Busy(1)
    /\ ncalls < MaxFetches
    /\ \E s \in Sources :
          /\ call' = [call EXCEPT ![1] = [IdleCall EXCEPT !.pc = "request", !.src = s]]
          /\ fetch' = [IdleFetch EXCEPT !.pc = "request", !.src = s,
                                        !.before = status[s]]
    /\ ncalls' = ncalls + 1
    /\ UNCHANGED << api_key, status, clock, streak, saved, orch >>
    /\ UNCHANGED << fusion, cache, conv, forecast, location, saver, norm >>

\* _make_request has ended; fetch_current examines what it returned.
ReturnFetch ==
    /\ fetch.pc = "request"
    /\ call[1].pc = "done"
    /\ \E payload \in Payloads \cup {"undecodable", "none"} :
          /\ payload \in (IF call[1].result = "success" THEN Payloads
                          ELSE IF ~call[1].body_ok THEN {"undecodable"}
                          ELSE {"none"})
          /\ fetch' = [fetch EXCEPT !.pc = "returned", !.payload = payload,
                          !.result = fetch_current(fetch.src, call[1].result, payload)]
    /\ UNCHANGED adapter_vars
    /\ UNCHANGED << fusion, cache, conv, forecast, location, saver, norm >>

\* One caller of fetch_current; the upstream answers 200 (with any body)
\* or 404.
NextFetch ==
    \/ StartFetch
    \/ Request(1, PlainCodes, BOOLEAN)
    \/ LogResponse(1, {TRUE})
    \/ ExceptLog(1, {TRUE})
    \/ StatusRead(1)
    \/ StatusSave(1, BOOLEAN)
    \/ ReturnFetch

SpecFetch == Init /\ [][NextFetch]_vars

\* One caller of fetch_current against an upstream that may answer any
\* code, retried or not, while the writes of the response log may fail.
NextLog ==
    \/ StartFetch
    \/ Request(1, UpstreamCodes, BOOLEAN)
    \/ LogResponse(1, BOOLEAN)
    \/ ExceptLog(1, BOOLEAN)
    \/ StatusRead(1)
    \/ StatusSave(1, BOOLEAN)
    \/ ReturnFetch

SpecLog == Init /\ [][NextLog]_vars

\* The same caller on health rows that a failure leaves at, above and
\* below the 80 % success rate.
HealthHistories == SeedHistories \cup {Successes(4), Successes(5)}

InitHealth ==
    /\ api_key \in [Sources -> BOOLEAN]
    /\ \A s \in Sources \ CallSources : api_key[s]
    /\ \E h \in HealthHistories :
          /\ status = [s \in Sources |-> SeedRow(h)]
          /\ streak = [s \in Sources |-> TrailingFailures(h, Len(h))]
          /\ saved = [s \in Sources |-> Len(h)]
          /\ clock = Len(h) + 1
    /\ call = [t \in Threads |-> IdleCall]
    /\ ncalls = 0
    /\ orch = IdleOrch
    /\ fetch = IdleFetch
    /\ fusion = IdleFusion
    /\ cache = EmptyCache
    /\ conv = IdleConv
    /\ forecast = IdleForecast
    /\ location = IdleLocation
    /\ saver = IdleSaver
    /\ norm = IdleNorm

SpecHealth == InitHealth /\ [][NextLog]_vars

\* ---------------------------------------------------------------------
\* Fusion engine: FusionEngine.blend (fusion/engine.py) and the helpers
\* of core/utils.py
\* ---------------------------------------------------------------------

\* One tick of `clock` in the fusion, cache and forecast specifications
SecondsPerTick == 300

Ticks(seconds) == seconds \div SecondsPerTick

\* AIR_QUALITY_SETTINGS defaults read by the engine
RESPONSE_CACHE_TTL == 600
MAX_DATA_AGE_HOURS == 3
PREFERRED_DATA_AGE_MINUTES == 30
DEFAULT_SEARCH_RADIUS_KM == 25

\* Python's round(x) for x = n / d with d > 0: to the nearest integer, a
\* tie to the even one.
round_div(n, d) ==
    LET q == n \div d
        r == n % d
    IN  IF 2 * r < d THEN q
        ELSE IF 2 * r > d THEN q + 1
        ELSE IF q % 2 = 0 THEN q ELSE q + 1

\* Coordinates are counted in 1/10000 degree; round(Decimal(str(x)), 3)
\* keeps three decimals (engine.py:285-286, 321-322).
round3(x) == round_div(x, 10) * 10

\* is_data_fresh comparing the age in ticks with the limit in hours
is_data_fresh_unit_slip(timestamp, max_age_hours, now) ==
    (now - timestamp) < max_age_hours

\* core/utils.py:30-51, timestamps and now in ticks
is_data_fresh(timestamp, max_age_hours, now) ==
    (now - timestamp) < Ticks(max_age_hours * 3600)

\* core/utils.py:54-78 in tenths: 1.0 up to the preferred age, then
\* exp(-age / (2 * preferred)) with the floor 0.1. The floor is reached
\* from 139 minutes on; between 30 and 139 minutes the value is given to
\* one decimal.
calculate_time_decay_weight(timestamp, preferred_age_minutes, now) ==
    LET age_minutes == ((now - timestamp) * SecondsPerTick) \div 60 IN
    IF age_minutes <= preferred_age_minutes THEN 10
    ELSE IF age_minutes >= 139 THEN 1
    ELSE IF age_minutes <= 35 THEN 6
    ELSE IF age_minutes <= 47 THEN 5
    ELSE IF age_minutes <= 62 THEN 4
    ELSE IF age_minutes <= 83 THEN 3
    ELSE IF age_minutes <= 113 THEN 2
    ELSE 1

\* core/utils.py:108-127 with EPA_AQI_CATEGORIES (core/constants.py:6-61):
\* the category of an AQI, "" when no row holds it.
convert_aqi_to_category(aqi) ==
    IF 0 <= aqi /\ aqi <= 50 THEN "Good"
    ELSE IF 51 <= aqi /\ aqi <= 100 THEN "Moderate"
    ELSE IF 101 <= aqi /\ aqi <= 150 THEN "Unhealthy for Sensitive Groups"
    ELSE IF 151 <= aqi /\ aqi <= 200 THEN "Unhealthy"
    ELSE IF 201 <= aqi /\ aqi <= 300 THEN "Very Unhealthy"
    ELSE IF 301 <= aqi /\ aqi <= 500 THEN "Hazardous"
    ELSE ""

\* SourceWeight rows of the request's region (fusion/models.py:54-77), the
\* trust weight in twentieths, the two factors as whole numbers:
\*   "none"    no row, the default 0.5 of engine.py:163 applies;
\*   "seeded"  the rows init_source_weights creates for region US;
\*   "zeroed"  the seeded rows, PurpleAir's trust weight set to 0 by an
\*             operator.
WeightTables == {"none", "seeded", "zeroed"}

SourceWeightRow(table, source) ==
    LET seeded == CASE source = "EPA_AIRNOW" -> 20
                    [] source = "PURPLEAIR" -> 17
                    [] source = "OPENWEATHERMAP" -> 14
                    [] source = "AIRVISUAL" -> 15
                    [] source = "WAQI" -> 13
    IN  CASE table = "none" -> [exists |-> FALSE]
          [] table = "seeded" ->
                [exists |-> TRUE, trust_weight |-> seeded,
                 distance_weight_factor |-> 1, time_decay_factor |-> 1]
          [] table = "zeroed" ->
                [exists |-> TRUE,
                 trust_weight |-> IF source = "PURPLEAIR" THEN 0 ELSE seeded,
                 distance_weight_factor |-> 1, time_decay_factor |-> 1]

\* The unit of a weight: trust in 1/20, time decay in 1/10, distance in
\* 1/50, quality in 1/10, confidence in 1/20.
WeightUnit == 20 * 10 * 50 * 10 * 20

Max(a, b) == IF a >= b THEN a ELSE b

\* FusionEngine._calculate_weight (engine.py:135-207), in 1/WeightUnit
calculate_weight(source_data, table, now) ==
    LET row == SourceWeightRow(table, source_data.source)
        trust_weight == IF row.exists THEN row.trust_weight ELSE 10
        distance_factor == IF row.exists THEN row.distance_weight_factor ELSE 1
        time_factor == IF row.exists THEN row.time_decay_factor ELSE 1
        time_weight ==
            calculate_time_decay_weight(source_data.timestamp,
                                        PREFERRED_DATA_AGE_MINUTES, now) * time_factor
        distance_weight ==
            IF source_data.distance_km # None /\ source_data.distance_km > 0
            THEN Max(5, 50 - (50 * source_data.distance_km) \div DEFAULT_SEARCH_RADIUS_KM)
                    * distance_factor
            ELSE 50
        quality_weight ==
            CASE source_data.quality_level = "verified" -> 10
              [] source_data.quality_level = "model" -> 8
              [] source_data.quality_level = "sensor" -> 9
              [] source_data.quality_level = "estimated" -> 6
              [] OTHER -> 5
        confidence_weight ==
            IF source_data.confidence_score # None /\ source_data.confidence_score # 0
            THEN source_data.confidence_score \div 5
            ELSE 20
    IN  trust_weight * time_weight * distance_weight * quality_weight * confidence_weight

\* measurements in the list handed to blend
MaxMeasurements == 2

\* blend calls of one behaviour of SpecFusion
MaxBlends == 2

\* ticks of the clock during one behaviour of SpecFusion
MaxTicks == 3

\* The instant the first request arrives
FusionStart == Ticks((MAX_DATA_AGE_HOURS + 1) * 3600)

\* SourceData as the adapters build it (adapters/models.py:8-43); `age`
\* is the age in ticks when the first request arrives, pm25 the only
\* pollutant reported.
Measurement(source, aqi, age, distance_km, quality_level, confidence_score, pm25, station_name) ==
    [source |-> source, aqi |-> aqi, timestamp |-> FusionStart - age,
     distance_km |-> distance_km, quality_level |-> quality_level,
     confidence_score |-> confidence_score, pm25 |-> pm25,
     station_name |-> station_name]

\* The measurements the adapters may return: an AirNow station, two
\* PurpleAir sensors alike but for their readings, a WAQI station without
\* an AQI ('-') seen 30 minutes ago, an OpenWeatherMap value exactly
\* MAX_DATA_AGE_HOURS old, an AirVisual value at the top of the scale, and
\* a WAQI station last seen four hours ago.
Catalogue ==
    << Measurement("EPA_AIRNOW", 42, 0, 1, "verified", 100, None, "Los Angeles"),
       Measurement("PURPLEAIR", 80, 0, 5, "sensor", 90, 26, "Sensor A"),
       Measurement("PURPLEAIR", 40, 0, 5, "sensor", 90, 10, "Sensor B"),
       Measurement("WAQI", None, Ticks(1800), 0, "verified", 85, None, "Downtown"),
       Measurement("OPENWEATHERMAP", 125, Ticks(MAX_DATA_AGE_HOURS * 3600), 0, "model", 75, 12, ""),
       Measurement("AIRVISUAL", 500, 0, 0, "model", 75, None, "Los Angeles"),
       Measurement("WAQI", 60, Ticks((MAX_DATA_AGE_HOURS + 1) * 3600), 2, "verified", 85, 15, "Harbor") >>

\* The lists an orchestrator run may hand to blend: up to MaxMeasurements
\* different measurements in any order.
MeasurementLists ==
    { [i \in 1..Len(ix) |-> Catalogue[ix[i]]] :
        ix \in { q \in UNION { [1..n -> 1..Len(Catalogue)] : n \in 0..MaxMeasurements } :
                    \A i, j \in 1..Len(q) : i # j => q[i] # q[j] } }

\* engine.py:72-75: the fresh measurements, in the order of the list
RECURSIVE fresh_data(_, _)
fresh_data(source_data_list, now) ==
    IF source_data_list = << >> THEN << >>
    ELSE LET sd == Head(source_data_list)
             rest == fresh_data(Tail(source_data_list), now)
         IN  IF is_data_fresh(sd.timestamp, MAX_DATA_AGE_HOURS, now)
             THEN << sd >> \o rest
             ELSE rest

\* engine.py:82-90: (source_data, weight) pairs in the order of the list
weighted_sources(fresh, table, now) ==
    [i \in 1..Len(fresh) |->
        [sd |-> fresh[i], weight |-> calculate_weight(fresh[i], table, now)]]

\* the sums of _blend_aqi's loop (engine.py:219-225) from pair i on
RECURSIVE aqi_weighted_sum(_, _)
aqi_weighted_sum(ws, i) ==
    IF i > Len(ws) THEN 0
    ELSE (IF ws[i].sd.aqi # None THEN ws[i].sd.aqi * ws[i].weight ELSE 0)
         + aqi_weighted_sum(ws, i + 1)

RECURSIVE aqi_total_weight(_, _)
aqi_total_weight(ws, i) ==
    IF i > Len(ws) THEN 0
    ELSE (IF ws[i].sd.aqi # None THEN ws[i].weight ELSE 0)
         + aqi_total_weight(ws, i + 1)

\* _blend_aqi dividing by the number of measurements, not by their weight
blend_aqi_by_count(ws) ==
    IF aqi_total_weight(ws, 1) = 0 THEN 0
    ELSE round_div(aqi_weighted_sum(ws, 1), Len(ws) * WeightUnit)

\* FusionEngine._blend_aqi (engine.py:209-231)
blend_aqi(ws) ==
    IF aqi_total_weight(ws, 1) = 0 THEN 0
    ELSE round_div(aqi_weighted_sum(ws, 1), aqi_total_weight(ws, 1))

\* the sums of _blend_pollutants' loop (engine.py:245-249) for pm25
RECURSIVE pm25_weighted_sum(_, _)
pm25_weighted_sum(ws, i) ==
    IF i > Len(ws) THEN 0
    ELSE (IF ws[i].sd.pm25 # None THEN ws[i].sd.pm25 * ws[i].weight ELSE 0)
         + pm25_weighted_sum(ws, i + 1)

RECURSIVE pm25_total_weight(_, _)
pm25_total_weight(ws, i) ==
    IF i > Len(ws) THEN 0
    ELSE (IF ws[i].sd.pm25 # None THEN ws[i].weight ELSE 0)
         + pm25_total_weight(ws, i + 1)

\* FusionEngine._blend_pollutants (engine.py:233-258): the blended pm25 in
\* hundredths (round(avg, 2)), None when the key is absent from the dict.
blend_pollutants(ws) ==
    LET total == pm25_total_weight(ws, 1)
        sum == pm25_weighted_sum(ws, 1)
    IN  [pm25 |-> IF total > 0
                  THEN 100 * (sum \div total) + round_div(100 * (sum % total), total)
                  ELSE None]

\* one row of source_details (engine.py:265-273), round(weight, 3) in
\* thousandths
source_detail(w) ==
    [source |-> w.sd.source, weight |-> round_div(w.weight, WeightUnit \div 1000),
     aqi |-> w.sd.aqi, distance_km |-> w.sd.distance_km,
     timestamp |-> w.sd.timestamp, quality_level |-> w.sd.quality_level,
     station_name |-> w.sd.station_name]

\* list.sort(key=weight, reverse=True) (engine.py:276): a stable sort, rows
\* of equal weight keep the order they were appended in.
RECURSIVE insert_by_weight(_, _)
insert_by_weight(sorted, d) ==
    IF sorted = << >> THEN << d >>
    ELSE IF Head(sorted).weight >= d.weight
         THEN << Head(sorted) >> \o insert_by_weight(Tail(sorted), d)
         ELSE << d >> \o sorted

RECURSIVE sort_details(_, _)
sort_details(details, n) ==
    IF n = 0 THEN << >>
    ELSE insert_by_weight(sort_details(details, n - 1), details[n])

\* FusionEngine._get_source_details (engine.py:260-278)
get_source_details(ws) ==
    sort_details([i \in 1..Len(ws) |-> source_detail(ws[i])], Len(ws))

RECURSIVE max_timestamp(_, _)
max_timestamp(ws, i) ==
    IF i = Len(ws) THEN ws[i].sd.timestamp
    ELSE Max(ws[i].sd.timestamp, max_timestamp(ws, i + 1))

\* engine.py:105-116: the response of a computed blend. A key the dict
\* does not hold is left out of `keys` and its field is empty.
blended_response(lat, lon, ws) ==
    LET blended_aqi == blend_aqi(ws)
        category == convert_aqi_to_category(blended_aqi)
    IN  [keys |-> {"lat", "lon", "current", "source_details"},
         lat |-> lat, lon |-> lon,
         aqi |-> blended_aqi,
         category |-> IF category = "" THEN "Unknown" ELSE category,
         pollutants |-> blend_pollutants(ws),
         sources |-> { ws[i].sd.source : i \in 1..Len(ws) },
         last_updated |-> max_timestamp(ws, 1),
         source_details |-> get_source_details(ws),
         health_advice |-> "", error |-> ""]

\* engine.py:296-307: the response built from a cache entry; health_advice
\* is the health message of the AQI's category, named here by the category.
cached_response(cached) ==
    [keys |-> {"lat", "lon", "current", "health_advice"},
     lat |-> cached.lat, lon |-> cached.lon,
     aqi |-> cached.current_aqi,
     category |-> cached.category,
     pollutants |-> cached.pollutants,
     sources |-> cached.sources,
     last_updated |-> cached.last_updated,
     source_details |-> << >>,
     health_advice |-> convert_aqi_to_category(cached.current_aqi), error |-> ""]

\* FusionEngine._get_default_response (engine.py:341-354)
get_default_response(lat, lon, now) ==
    [keys |-> {"lat", "lon", "current", "error"},
     lat |-> lat, lon |-> lon,
     aqi |-> None,
     category |-> "Unavailable",
     pollutants |-> [pm25 |-> None],
     sources |-> {},
     last_updated |-> now,
     source_details |-> << >>,
     health_advice |-> "",
     error |-> "No fresh air quality data available for this location"]

\* the validity test of a BlendedData entry without the comparison
blended_never_expires(now, cached_until) == TRUE

\* engine.py:291: timezone.now() < cached.cached_until
blended_is_valid(now, cached_until) == now < cached_until

\* a cache read that answers from a valid entry and leaves its hit count
blended_get_without_count(entry, lat, lon, now) ==
    IF ~entry.exists \/ entry.lat # round3(lat) \/ entry.lon # round3(lon)
    THEN [hit |-> FALSE, entry |-> entry]
    ELSE IF blended_is_valid(now, entry.cached_until)
         THEN [hit |-> TRUE, entry |-> entry]
         ELSE [hit |-> FALSE, entry |-> NoEntry]

\* FusionEngine._get_from_cache (engine.py:280-315) on the BlendedData
\* table: a valid entry is a hit and its hit count grows; an expired one is
\* deleted.
blended_get_from_cache(entry, lat, lon, now) ==
    IF ~entry.exists \/ entry.lat # round3(lat) \/ entry.lon # round3(lon)
    THEN [hit |-> FALSE, entry |-> entry]
    ELSE IF blended_is_valid(now, entry.cached_until)
         THEN [hit |-> TRUE, entry |-> [entry EXCEPT !.hit_count = @ + 1]]
         ELSE [hit |-> FALSE, entry |-> NoEntry]

\* FusionEngine._save_to_cache (engine.py:317-339): update_or_create by
\* the rounded coordinates; last_updated is auto_now.
blended_save_to_cache(entry, lat, lon, result, now) ==
    [exists |-> TRUE, lat |-> round3(lat), lon |-> round3(lon),
     current_aqi |-> result.aqi, category |-> result.category,
     pollutants |-> result.pollutants, sources |-> result.sources,
     source_count |-> Cardinality(result.sources),
     cached_until |-> now + Ticks(RESPONSE_CACHE_TTL),
     last_updated |-> now,
     hit_count |-> IF entry.exists /\ entry.lat = round3(lat) /\ entry.lon = round3(lon)
                   THEN entry.hit_count ELSE 0]

\* blend saving the default response as it saves a computed one
blend_caching_default(lat, lon, source_data_list, table, use_cache, entry, now, written) ==
    LET look == IF use_cache THEN blended_get_from_cache(entry, lat, lon, now)
                ELSE [hit |-> FALSE, entry |-> entry]
        fresh == fresh_data(source_data_list, now)
        ws == weighted_sources(fresh, table, now)
        result == IF fresh = << >> THEN get_default_response(lat, lon, now)
                  ELSE blended_response(lat, lon, ws)
    IN  IF look.hit
        THEN [response |-> cached_response(look.entry), entry |-> look.entry,
              hit |-> TRUE]
        ELSE [response |-> result,
              entry |-> IF written
                        THEN blended_save_to_cache(look.entry, lat, lon, result, now)
                        ELSE look.entry,
              hit |-> FALSE]

\* FusionEngine.blend (engine.py:35-133): the response, the cache entry it
\* leaves and whether the cache answered. `written` is FALSE when the
\* cache write raises and the exception is swallowed (engine.py:338-339).
blend(lat, lon, source_data_list, table, use_cache, entry, now, written) ==
    LET look == IF use_cache THEN blended_get_from_cache(entry, lat, lon, now)
                ELSE [hit |-> FALSE, entry |-> entry]
        fresh == fresh_data(source_data_list, now)
        ws == weighted_sources(fresh, table, now)
        result == blended_response(lat, lon, ws)
    IN  IF look.hit
        THEN [response |-> cached_response(look.entry), entry |-> look.entry,
              hit |-> TRUE]
        ELSE IF fresh = << >>
        THEN [response |-> get_default_response(lat, lon, now),
              entry |-> look.entry, hit |-> FALSE]
        ELSE [response |-> result,
              entry |-> IF written
                        THEN blended_save_to_cache(look.entry, lat, lon, result, now)
                        ELSE look.entry,
              hit |-> FALSE]

\* Query coordinates in 1/10000 degree: 34.0522 N and 34.0520 N at
\* 118.2437 W.
QueryLats == {340522, 340520}
QueryLons == {-1182437}

\* A request reaches the engine with the measurements of its adapters.
Blend ==
    /\ fusion.calls < MaxBlends
    /\ \E use_cache \in BOOLEAN, written \in BOOLEAN :
          LET r == blend(fusion.lat, fusion.lon, fusion.M, fusion.table,
                         use_cache, cache.blended, clock, written)
          IN  /\ written \/ "source_details" \in r.response.keys
              /\ fusion' = [fusion EXCEPT !.pc = "returned", !.calls = @ + 1,
                               !.use_cache = use_cache, !.at = clock,
                               !.hit = r.hit, !.before = cache.blended,
                               !.response = r.response,
                               !.prev = fusion.response, !.prev_at = fusion.at]
              /\ cache' = [cache EXCEPT !.blended = r.entry]
    /\ UNCHANGED adapter_vars
    /\ UNCHANGED << fetch, conv, forecast, location, saver, norm >>

\* Time passes between two requests.
FusionTick ==
    /\ clock < FusionStart + MaxTicks
    /\ clock' = clock + 1
    /\ UNCHANGED << api_key, status, call, ncalls, streak, saved, orch >>
    /\ UNCHANGED data_vars

InitFusion ==
    /\ api_key = [s \in Sources |-> TRUE]
    /\ status = [s \in Sources |-> NoRow]
    /\ streak = [s \in Sources |-> 0]
    /\ saved = [s \in Sources |-> 0]
    /\ clock = FusionStart
    /\ call = [t \in Threads |-> IdleCall]
    /\ ncalls = 0
    /\ orch = IdleOrch
    /\ fetch = IdleFetch
    /\ \E lat \in QueryLats, lon \in QueryLons, table \in WeightTables,
          M \in MeasurementLists :
          fusion = [IdleFusion EXCEPT !.lat = lat, !.lon = lon,
                                      !.table = table, !.M = M]
    /\ cache = EmptyCache
    /\ conv = IdleConv
    /\ forecast = IdleForecast
    /\ location = IdleLocation
    /\ saver = IdleSaver
    /\ norm = IdleNorm

NextFusion ==
    \/ Blend
    \/ FusionTick

SpecFusion == InitFusion /\ [][NextFusion]_vars

\* Measurements that tell the factors of a weight apart, all taken at the
\* query point when the first request arrives: three AirNow areas one AQI
\* point apart, a station with the confidence score 0 and one without a
\* score, and one measurement of each remaining quality tier and of a tier
\* the engine does not know.
WeightCatalogue ==
    << Measurement("EPA_AIRNOW", 40, 0, 0, "verified", 100, None, "Area A"),
       Measurement("EPA_AIRNOW", 41, 0, 0, "verified", 100, None, "Area B"),
       Measurement("EPA_AIRNOW", 42, 0, 0, "verified", 100, None, "Area C"),
       Measurement("WAQI", 50, 0, 0, "verified", 0, None, "Score 0"),
       Measurement("WAQI", 50, 0, 0, "verified", None, None, "No score"),
       Measurement("PURPLEAIR", 30, 0, 0, "sensor", 50, 8, "Sensor"),
       Measurement("AIRVISUAL", 60, 0, 0, "estimated", 75, None, "Estimate"),
       Measurement("OPENWEATHERMAP", 125, 0, 0, "model", 75, 12, "Model"),
       Measurement("WAQI", 70, 0, 0, "crowd", 100, None, "Crowd") >>

WeightLists ==
    { [i \in 1..Len(ix) |-> WeightCatalogue[ix[i]]] :
        ix \in { q \in UNION { [1..n -> 1..Len(WeightCatalogue)] :
                                  n \in 1..MaxMeasurements } :
                    \A i, j \in 1..Len(q) : i # j => q[i] # q[j] } }

InitWeights ==
    /\ api_key = [s \in Sources |-> TRUE]
    /\ status = [s \in Sources |-> NoRow]
    /\ streak = [s \in Sources |-> 0]
    /\ saved = [s \in Sources |-> 0]
    /\ clock = FusionStart
    /\ call = [t \in Threads |-> IdleCall]
    /\ ncalls = 0
    /\ orch = IdleOrch
    /\ fetch = IdleFetch
    /\ \E lon \in QueryLons, table \in WeightTables, M \in WeightLists :
          fusion = [IdleFusion EXCEPT !.lat = 340522, !.lon = lon,
                                      !.table = table, !.M = M]
    /\ cache = EmptyCache
    /\ conv = IdleConv
    /\ forecast = IdleForecast
    /\ location = IdleLocation
    /\ saver = IdleSaver
    /\ norm = IdleNorm

SpecWeights == InitWeights /\ [][NextFusion]_vars

\* The BlendedData row of the query point left by earlier requests: none,
\* one that is valid for one more tick, one that expired a tick ago.
StoredBlends(lat, lon) ==
    { NoEntry } \cup
    { [exists |-> TRUE, lat |-> round3(lat), lon |-> round3(lon),
       current_aqi |-> 55, category |-> "Moderate",
       pollutants |-> [pm25 |-> 1400], sources |-> {"EPA_AIRNOW", "WAQI"},
       source_count |-> 2, cached_until |-> until,
       last_updated |-> until - Ticks(RESPONSE_CACHE_TTL), hit_count |-> 3] :
         until \in {FusionStart + 1, FusionStart - 1} }

\* blend calls on a table that holds an entry of earlier requests
InitStored ==
    /\ api_key = [s \in Sources |-> TRUE]
    /\ status = [s \in Sources |-> NoRow]
    /\ streak = [s \in Sources |-> 0]
    /\ saved = [s \in Sources |-> 0]
    /\ clock = FusionStart
    /\ call = [t \in Threads |-> IdleCall]
    /\ ncalls = 0
    /\ orch = IdleOrch
    /\ fetch = IdleFetch
    /\ \E lat \in QueryLats, lon \in QueryLons, M \in MeasurementLists :
          /\ fusion = [IdleFusion EXCEPT !.lat = lat, !.lon = lon,
                                         !.table = "seeded", !.M = M]
          /\ \E e \in StoredBlends(lat, lon) :
                cache = [EmptyCache EXCEPT !.blended = e]
    /\ conv = IdleConv
    /\ forecast = IdleForecast
    /\ location = IdleLocation
    /\ saver = IdleSaver
    /\ norm = IdleNorm

SpecStored == InitStored /\ [][NextFusion]_vars

\* ---------------------------------------------------------------------
\* Forecast aggregation: ForecastAggregator (forecast/services.py)
\* ---------------------------------------------------------------------

MaxPoints == 2
MaxAggregations == 2

TicksPerHour == Ticks(3600)

\* timestamp.replace(minute=0, second=0, microsecond=0) (services.py:133)
hour_key(t) == t - (t % TicksPerHour)

\* a forecast dict of an adapter: timestamp (None when absent), aqi (None
\* when absent) and source
ForecastPoint(timestamp, aqi, source) ==
    [timestamp |-> timestamp, aqi |-> aqi, source |-> source]

\* The forecast points the adapters return around the first request, with
\* FusionStart on the hour: ten and thirty minutes into the first hour,
\* the start of the next hour and ten minutes into it (without AQI), half
\* an hour before the request, and one without a timestamp.
ForecastCatalogue ==
    << ForecastPoint(FusionStart + Ticks(1800), 40, "OPENWEATHERMAP"),
       ForecastPoint(FusionStart + Ticks(600), 45, "WAQI"),
       ForecastPoint(FusionStart + Ticks(3600), 60, "OPENWEATHERMAP"),
       ForecastPoint(FusionStart + Ticks(4200), None, "AIRVISUAL"),
       ForecastPoint(FusionStart - Ticks(1800), 90, "WAQI"),
       ForecastPoint(None, 70, "AIRVISUAL") >>

\* forecast_list: up to MaxPoints distinct points, in any order
ForecastLists ==
    { q \in UNION { [1..n -> 1..Len(ForecastCatalogue)] : n \in 0..MaxPoints } :
          \A i, j \in DOMAIN q : i # j => q[i] # q[j] }

forecast_list_of(q) == [i \in DOMAIN q |-> ForecastCatalogue[q[i]]]

\* ForecastAggregator._store_forecasts (services.py:73-112): one
\* ForecastData row per point that has a timestamp not in the past; the
\* row of a point without AQI is refused (aqi is NOT NULL) and the error
\* is swallowed.
RECURSIVE store_forecasts(_, _, _)
store_forecasts(data, forecast_list, now) ==
    IF forecast_list = << >> THEN data
    ELSE LET f == Head(forecast_list)
             kept == f.timestamp # None /\ ~(f.timestamp < now) /\ f.aqi # None
         IN  store_forecasts(IF kept THEN Append(data, f) ELSE data,
                             Tail(forecast_list), now)

\* the keys of ForecastAggregator._group_by_hour's dict (services.py:114-140)
hour_keys(forecast_list) ==
    { hour_key(forecast_list[i].timestamp) :
          i \in { j \in DOMAIN forecast_list : forecast_list[j].timestamp # None } }

\* ForecastAggregator._group_by_hour (services.py:114-140): every point
\* with a timestamp goes to the list of its hour, in input order
group_by_hour(forecast_list) ==
    [h \in hour_keys(forecast_list) |->
        SelectSeq(forecast_list,
                  LAMBDA f : f.timestamp # None /\ hour_key(f.timestamp) = h)]

RECURSIVE sum_aqi(_)
sum_aqi(forecasts) ==
    IF forecasts = << >> THEN 0
    ELSE Head(forecasts).aqi + sum_aqi(Tail(forecasts))

NoBucket == [exists |-> FALSE]

\* ForecastAggregator._aggregate_hour (services.py:142-183)
aggregate_hour(forecasts) ==
    LET aqi_values == SelectSeq(forecasts, LAMBDA f : f.aqi # None)
    IN  IF forecasts = << >> \/ aqi_values = << >> THEN NoBucket
        ELSE LET avg_aqi == round_div(sum_aqi(aqi_values), Len(aqi_values))
             IN  [exists |-> TRUE,
                  keys |-> {"timestamp", "aqi", "category", "pollutants",
                            "sources", "source_count"},
                  timestamp |-> forecasts[1].timestamp,
                  aqi |-> avg_aqi,
                  category |-> convert_aqi_to_category(avg_aqi),
                  sources |-> { forecasts[i].source : i \in DOMAIN forecasts }]

\* sorted(grouped_forecasts.items()) (services.py:63): ascending hour keys
RECURSIVE sorted_keys(_)
sorted_keys(S) ==
    IF S = {} THEN << >>
    ELSE LET m == CHOOSE x \in S : \A y \in S : x <= y
         IN  << m >> \o sorted_keys(S \ {m})

\* the loop of aggregate_forecasts (services.py:62-66) over the sorted keys
RECURSIVE aggregate_hours(_, _)
aggregate_hours(grouped, keys) ==
    IF keys = << >> THEN << >>
    ELSE LET agg_forecast == aggregate_hour(grouped[Head(keys)])
         IN  (IF agg_forecast.exists THEN << agg_forecast >> ELSE << >>)
             \o aggregate_hours(grouped, Tail(keys))

\* the rows a cache read may return (services.py:193-198)
aggregated_valid_rows(rows, lat, lon, now) ==
    { r \in rows : /\ r.lat = round3(lat) /\ r.lon = round3(lon)
                   /\ r.forecast_timestamp >= now
                   /\ r.cached_until > now }

RECURSIVE rows_by_timestamp(_)
rows_by_timestamp(rows) ==
    IF rows = {} THEN << >>
    ELSE LET r == CHOOSE x \in rows :
                     \A y \in rows : x.forecast_timestamp <= y.forecast_timestamp
         IN  << [exists |-> TRUE,
                 keys |-> {"timestamp", "aqi", "category", "pollutants", "sources"},
                 timestamp |-> r.forecast_timestamp, aqi |-> r.aqi,
                 category |-> r.category, sources |-> r.sources] >>
             \o rows_by_timestamp(rows \ {r})

\* ForecastAggregator._get_from_cache (services.py:185-216): the valid rows
\* ordered by forecast_timestamp; the empty list stands for None.
aggregated_get_from_cache(rows, lat, lon, now) ==
    rows_by_timestamp(aggregated_valid_rows(rows, lat, lon, now))

\* ForecastAggregator._save_to_cache (services.py:218-252):
\* update_or_create by (lat, lon, forecast_timestamp)
RECURSIVE aggregated_save_to_cache(_, _, _, _, _)
aggregated_save_to_cache(rows, lat, lon, aggregated, now) ==
    IF aggregated = << >> THEN rows
    ELSE LET b == Head(aggregated)
             others == { r \in rows : ~(/\ r.lat = round3(lat)
                                        /\ r.lon = round3(lon)
                                        /\ r.forecast_timestamp = b.timestamp) }
             row == [lat |-> round3(lat), lon |-> round3(lon),
                     forecast_timestamp |-> b.timestamp, aqi |-> b.aqi,
                     category |-> b.category, sources |-> b.sources,
                     cached_until |-> now + Ticks(RESPONSE_CACHE_TTL)]
         IN  aggregated_save_to_cache(others \cup {row}, lat, lon,
                                      Tail(aggregated), now)

\* ForecastAggregator.aggregate_forecasts (services.py:27-71): the list it
\* returns, the tables it leaves and whether the cache answered
aggregate_forecasts(lat, lon, forecast_list, use_cache, rows, data, now) ==
    LET cached == aggregated_get_from_cache(rows, lat, lon, now)
        grouped_forecasts == group_by_hour(forecast_list)
        aggregated == aggregate_hours(grouped_forecasts,
                                      sorted_keys(DOMAIN grouped_forecasts))
    IN  IF forecast_list = << >>
        THEN [result |-> << >>, rows |-> rows, data |-> data, hit |-> FALSE]
        ELSE IF use_cache /\ cached # << >>
        THEN [result |-> cached, rows |-> rows, data |-> data, hit |-> TRUE]
        ELSE [result |-> aggregated,
              rows |-> aggregated_save_to_cache(rows, lat, lon, aggregated, now),
              data |-> store_forecasts(data, forecast_list, now),
              hit |-> FALSE]

\* The orchestrator hands the forecasts of its adapters to the aggregator
\* (api/orchestrator.py:102-104).
AggregateForecasts(lists) ==
    /\ forecast.calls < MaxAggregations
    /\ \E q \in lists, use_cache \in BOOLEAN :
          LET r == aggregate_forecasts(fusion.lat, fusion.lon, forecast_list_of(q),
                                       use_cache, cache.aggregated,
                                       cache.forecast_data, clock)
          IN  /\ forecast' = [pc |-> "returned", calls |-> forecast.calls + 1,
                              forecast_list |-> forecast_list_of(q),
                              use_cache |-> use_cache, at |-> clock,
                              hit |-> r.hit, before |-> cache.aggregated,
                              result |-> r.result]
              /\ cache' = [cache EXCEPT !.aggregated = r.rows,
                                        !.forecast_data = r.data]
    /\ UNCHANGED adapter_vars
    /\ UNCHANGED << fetch, fusion, conv, location, saver, norm >>

InitForecast ==
    /\ api_key = [s \in Sources |-> TRUE]
    /\ status = [s \in Sources |-> NoRow]
    /\ streak = [s \in Sources |-> 0]
    /\ saved = [s \in Sources |-> 0]
    /\ clock = FusionStart
    /\ call = [t \in Threads |-> IdleCall]
    /\ ncalls = 0
    /\ orch = IdleOrch
    /\ fetch = IdleFetch
    /\ \E lat \in QueryLats, lon \in QueryLons :
          fusion = [IdleFusion EXCEPT !.lat = lat, !.lon = lon]
    /\ cache = EmptyCache
    /\ conv = IdleConv
    /\ forecast = IdleForecast
    /\ location = IdleLocation
    /\ saver = IdleSaver
    /\ norm = IdleNorm

NextForecast ==
    \/ AggregateForecasts(ForecastLists)
    \/ FusionTick

SpecForecast == InitForecast /\ [][NextForecast]_vars

\* ---------------------------------------------------------------------
\* PM2.5 to AQI: PurpleAirAdapter._pm25_to_aqi (adapters/purpleair.py)
\* ---------------------------------------------------------------------

\* Concentrations are counted in 1/100 ug/m3: 1205 is 12.05 ug/m3.

\* how far from a breakpoint edge the concentrations of the check lie
PmSpread == 6

\* purpleair.py:176-184: (c_low, c_high, aqi_low, aqi_high), the
\* concentrations in 1/100 ug/m3
breakpoints ==
    << << 0, 1200, 0, 50 >>,
       << 1210, 3540, 51, 100 >>,
       << 3550, 5540, 101, 150 >>,
       << 5550, 15040, 151, 200 >>,
       << 15050, 25040, 201, 300 >>,
       << 25050, 35040, 301, 400 >>,
       << 35050, 50040, 401, 500 >> >>

\* purpleair.py:186-190 from row i on: the first row that contains pm25
\* interpolates, (aqi_high - aqi_low) / (c_high - c_low) * (pm25 - c_low)
\* + aqi_low, rounded; 0 stands for "no row matched".
RECURSIVE first_row(_, _)
first_row(pm25, i) ==
    IF i > Len(breakpoints) THEN 0
    ELSE IF breakpoints[i][1] <= pm25 /\ pm25 <= breakpoints[i][2] THEN i
    ELSE first_row(pm25, i + 1)

\* PurpleAirAdapter._pm25_to_aqi (purpleair.py:165-196)
pm25_to_aqi(pm25) ==
    LET i == first_row(pm25, 1)
    IN  IF i # 0
        THEN LET c_low == breakpoints[i][1]
                 c_high == breakpoints[i][2]
                 aqi_low == breakpoints[i][3]
                 aqi_high == breakpoints[i][4]
             IN  round_div((aqi_high - aqi_low) * (pm25 - c_low)
                               + aqi_low * (c_high - c_low),
                           c_high - c_low)
        ELSE IF pm25 > 50040 THEN 500
        ELSE 0

\* the edges of the breakpoint rows
BreakpointEdges ==
    { breakpoints[i][1] : i \in DOMAIN breakpoints }
        \cup { breakpoints[i][2] : i \in DOMAIN breakpoints }

\* the corrected concentrations handed to _pm25_to_aqi (purpleair.py:140):
\* those within PmSpread hundredths of an edge, from 0 up
Concentrations ==
    UNION { { c \in (e - PmSpread)..(e + PmSpread) : c >= 0 } : e \in BreakpointEdges }

\* Two sensors' concentrations are converted.
PmToAqi ==
    /\ conv.pc = "drawn"
    /\ conv' = [conv EXCEPT !.pc = "converted",
                            !.aqi_a = pm25_to_aqi(conv.a),
                            !.aqi_b = pm25_to_aqi(conv.b)]
    /\ UNCHANGED adapter_vars
    /\ UNCHANGED << fetch, fusion, cache, forecast, location, saver, norm >>

InitConv ==
    /\ api_key = [s \in Sources |-> TRUE]
    /\ status = [s \in Sources |-> NoRow]
    /\ streak = [s \in Sources |-> 0]
    /\ saved = [s \in Sources |-> 0]
    /\ clock = 0
    /\ call = [t \in Threads |-> IdleCall]
    /\ ncalls = 0
    /\ orch = IdleOrch
    /\ fetch = IdleFetch
    /\ fusion = IdleFusion
    /\ cache = EmptyCache
    /\ \E a \in Concentrations, b \in Concentrations :
          conv = [IdleConv EXCEPT !.pc = "drawn", !.a = a, !.b = b]
    /\ forecast = IdleForecast
    /\ location = IdleLocation
    /\ saver = IdleSaver
    /\ norm = IdleNorm

NextConv == PmToAqi

SpecConv == InitConv /\ [][NextConv]_vars

\* ---------------------------------------------------------------------
\* normalize_data of the five adapters: from the decoded upstream body to
\* the SourceData measurements
\* ---------------------------------------------------------------------

\* observations, items or rows in one upstream body
MaxObservations == 2

\* JSON values of the upstream bodies: null, a number, a string
JNull == [t |-> "null", v |-> 0]
JInt(n) == [t |-> "int", v |-> n]
JDash == [t |-> "str", v |-> 0]

\* Python's truth value of a JSON value: None and 0 are false, '-' is true
truthy(j) == j.t = "str" \/ (j.t = "int" /\ j.v # 0)

\* the closed pollutant set of the measurements
PollutantKeys == {"pm25", "pm10", "o3", "no2", "so2", "co"}

\* QUALITY_LEVEL of the adapter classes
QUALITY_LEVEL(s) ==
    CASE s = "EPA_AIRNOW" -> "verified"
      [] s = "PURPLEAIR" -> "sensor"
      [] s = "OPENWEATHERMAP" -> "model"
      [] s = "WAQI" -> "verified"
      [] s = "AIRVISUAL" -> "model"

SourceData(s, aqi, pollutants) ==
    [source |-> s, aqi |-> aqi, pollutants |-> pollutants,
     quality_level |-> QUALITY_LEVEL(s)]

\* airnow.py:124-134: pollutant_map.get(parameter, parameter)
airnow_pollutant_key(parameter) ==
    CASE parameter = "pm2.5" -> "pm25"
      [] parameter = "ozone" -> "o3"
      [] OTHER -> parameter

\* airnow.py:139-143: the highest AQI of the observations whose AQI is true
RECURSIVE airnow_station_aqi(_, _)
airnow_station_aqi(observations, current_aqi) ==
    IF observations = << >> THEN current_aqi
    ELSE LET aqi_value == Head(observations).aqi
             next == IF truthy(aqi_value)
                        /\ (current_aqi.t = "null" \/ aqi_value.v > current_aqi.v)
                     THEN aqi_value ELSE current_aqi
         IN  airnow_station_aqi(Tail(observations), next)

\* AirNowAdapter.normalize_data (airnow.py:99-182), the observations of
\* one reporting area
airnow_normalize_data(raw_data) ==
    IF raw_data = << >> THEN << >>
    ELSE << SourceData("EPA_AIRNOW",
                       airnow_station_aqi(raw_data, JNull),
                       { airnow_pollutant_key(raw_data[i].parameter) :
                            i \in DOMAIN raw_data } \cap PollutantKeys) >>

\* WAQIAdapter.normalize_data (waqi.py:84-164): '-' is None, int(aqi)
\* otherwise, None when int() raises
waqi_normalize_data(raw_data) ==
    LET data == raw_data[1]
        aqi == IF data.aqi.t = "int" THEN data.aqi ELSE JNull
    IN  << SourceData("WAQI", aqi, data.iaqi \cap PollutantKeys) >>

\* a conversion table that puts index 3 at the top of its EPA band
owm_aqi_band_tops(aqi_1_5) ==
    IF aqi_1_5.t = "int" /\ aqi_1_5.v \in 1..5
    THEN << 50, 100, 150, 200, 300 >>[aqi_1_5.v]
    ELSE 0

\* OpenWeatherMapAdapter._convert_owm_aqi_to_epa (openweathermap.py:184-205):
\* conversion_map.get(aqi_1_5, 0)
convert_owm_aqi_to_epa(aqi_1_5) ==
    IF aqi_1_5.t = "int" /\ aqi_1_5.v \in 1..5
    THEN << 25, 75, 125, 175, 250 >>[aqi_1_5.v]
    ELSE 0

\* openweathermap.py:109-119: the six components that are not None
owm_pollutants(components) ==
    { IF k = "pm2_5" THEN "pm25" ELSE k :
        k \in components \cap {"co", "no2", "o3", "so2", "pm2_5", "pm10"} }

\* OpenWeatherMapAdapter.normalize_data (openweathermap.py:85-139)
openweathermap_normalize_data(raw_data) ==
    [i \in DOMAIN raw_data |->
        SourceData("OPENWEATHERMAP",
                   JInt(convert_owm_aqi_to_epa(raw_data[i].aqi)),
                   owm_pollutants(raw_data[i].components))]

\* PurpleAirAdapter.normalize_data (purpleair.py:78-163), from the
\* corrected concentration of each sensor on
purpleair_normalize_data(raw_data) ==
    [i \in DOMAIN raw_data |->
        SourceData("PURPLEAIR", JInt(pm25_to_aqi(raw_data[i].pm25)), {"pm25"})]

\* airvisual.py:106-119
airvisual_pollutant_key(main_pollutant) ==
    CASE main_pollutant = "p2" -> "pm25"
      [] main_pollutant = "p1" -> "pm10"
      [] OTHER -> main_pollutant

\* AirVisualAdapter.normalize_data (airvisual.py:62-150): no record when
\* aqius is missing or -1
airvisual_normalize_data(raw_data) ==
    LET pollution == raw_data[1]
        aqi == pollution.aqius
    IN  IF aqi.t = "null" \/ aqi = JInt(-1) THEN << >>
        ELSE << SourceData("AIRVISUAL", aqi,
                           IF pollution.mainus # ""
                           THEN { airvisual_pollutant_key(pollution.mainus) }
                                    \cap PollutantKeys
                           ELSE {}) >>

normalize_data(s, raw_data) ==
    CASE s = "EPA_AIRNOW" -> airnow_normalize_data(raw_data)
      [] s = "PURPLEAIR" -> purpleair_normalize_data(raw_data)
      [] s = "OPENWEATHERMAP" -> openweathermap_normalize_data(raw_data)
      [] s = "WAQI" -> waqi_normalize_data(raw_data)
      [] s = "AIRVISUAL" -> airvisual_normalize_data(raw_data)

SeqsUpTo(S, n) == UNION { [1..k -> S] : k \in 1..n }

\* The upstream bodies: AirNow observations with a reported AQI, the -1
\* AirNow reports for a parameter without one, 0 or none; OpenWeatherMap
\* items with an index in and out of 1..5; a WAQI station with a number,
\* '-' or nothing; PurpleAir sensors; an AirVisual city
UpstreamBodies(s) ==
    CASE s = "EPA_AIRNOW" ->
            SeqsUpTo([parameter : {"pm2.5", "ozone", "temperature"},
                      aqi : {JNull, JInt(-1), JInt(0), JInt(42)}],
                     MaxObservations)
      [] s = "OPENWEATHERMAP" ->
            SeqsUpTo([aqi : {JNull} \cup { JInt(n) : n \in 0..6 },
                      components : {{"pm2_5"}, {"pm2_5", "nh3"}}],
                     MaxObservations)
      [] s = "WAQI" ->
            SeqsUpTo([aqi : {JNull, JDash, JInt(-1), JInt(0), JInt(55)},
                      iaqi : {{}, {"pm25", "h"}}], 1)
      [] s = "PURPLEAIR" ->
            SeqsUpTo([pm25 : {-9, 0, 1200, 1205, 3540, 60000}], MaxObservations)
      [] s = "AIRVISUAL" ->
            SeqsUpTo([aqius : {JNull, JInt(-1), JInt(0), JInt(80)},
                      mainus : {"p2", "xx", ""}], 1)

\* fetch_current hands the decoded body to normalize_data.
Normalize ==
    /\ norm.pc = "called"
    /\ norm' = [norm EXCEPT !.pc = "returned",
                            !.out = normalize_data(norm.source, norm.raw)]
    /\ UNCHANGED adapter_vars
    /\ UNCHANGED << fetch, fusion, cache, conv, forecast, location, saver >>

InitNormalize ==
    /\ api_key = [s \in Sources |-> TRUE]
    /\ status = [s \in Sources |-> NoRow]
    /\ streak = [s \in Sources |-> 0]
    /\ saved = [s \in Sources |-> 0]
    /\ clock = 0
    /\ call = [t \in Threads |-> IdleCall]
    /\ ncalls = 0
    /\ orch = IdleOrch
    /\ fetch = IdleFetch
    /\ fusion = IdleFusion
    /\ cache = EmptyCache
    /\ conv = IdleConv
    /\ forecast = IdleForecast
    /\ location = IdleLocation
    /\ saver = IdleSaver
    /\ \E s \in Sources : \E raw_data \in UpstreamBodies(s) :
          norm = [IdleNorm EXCEPT !.pc = "called", !.source = s,
                                  !.raw = raw_data]

NextNormalize == Normalize

SpecNormalize == InitNormalize /\ [][NextNormalize]_vars

\* ---------------------------------------------------------------------
\* Location resolution: LocationService (location/services.py), and the
\* three caches over a day
\* ---------------------------------------------------------------------

MaxGeocodes == 2

\* AIR_QUALITY_SETTINGS default read by LocationService.__init__
LOCATION_CACHE_TTL == 86400

\* what geocoder.reverse does: an address, no result (or a GeopyError,
\* which _fetch_geocode answers alike), or another exception
GeocoderOutcomes == {"found", "not_found", "error"}

\* a default location that names no country
default_location_without_country(lat, lon) ==
    [lat |-> lat, lon |-> lon, city |-> "", country |-> ""]

\* LocationService._get_default_location (services.py:159-169)
get_default_location(lat, lon) ==
    [lat |-> lat, lon |-> lon, city |-> "", country |-> "unknown"]

\* LocationService._fetch_geocode (services.py:94-120); "raise" when an
\* exception other than GeopyError escapes
fetch_geocode(lat, lon, outcome) ==
    IF outcome = "found"
    THEN [lat |-> lat, lon |-> lon, city |-> "Los Angeles", country |-> "US"]
    ELSE get_default_location(lat, lon)

\* services.py:72-73: cache_age.total_seconds() < self.cache_ttl_seconds
location_is_fresh(now, cached_at) ==
    (now - cached_at) < Ticks(LOCATION_CACHE_TTL)

\* LocationService._get_from_cache (services.py:66-92): a fresh entry is a
\* hit and its hit count grows; an expired one is deleted.
location_get_from_cache(entry, lat, lon, now) ==
    IF ~entry.exists \/ entry.lat # lat \/ entry.lon # lon
    THEN [hit |-> FALSE, entry |-> entry]
    ELSE IF location_is_fresh(now, entry.cached_at)
         THEN [hit |-> TRUE, entry |-> [entry EXCEPT !.hit_count = @ + 1]]
         ELSE [hit |-> FALSE, entry |-> NoEntry]

\* LocationService._save_to_cache (services.py:142-157): update_or_create
\* by the rounded coordinates; cached_at is auto_now.
location_save_to_cache(entry, lat, lon, location_data, now) ==
    [exists |-> TRUE, lat |-> lat, lon |-> lon,
     city |-> location_data.city, country |-> location_data.country,
     cached_at |-> now,
     hit_count |-> IF entry.exists /\ entry.lat = lat /\ entry.lon = lon
                   THEN entry.hit_count ELSE 0]

\* LocationService.reverse_geocode (services.py:31-64): the location it
\* returns, the cache entry it leaves, whether the cache answered and
\* whether the geocoder was asked
reverse_geocode(lat, lon, use_cache, entry, now, outcome) ==
    LET lat_rounded == round3(lat)
        lon_rounded == round3(lon)
        look == IF use_cache
                THEN location_get_from_cache(entry, lat_rounded, lon_rounded, now)
                ELSE [hit |-> FALSE, entry |-> entry]
        location_data == fetch_geocode(lat, lon, outcome)
    IN  IF look.hit
        THEN [response |-> [lat |-> look.entry.lat, lon |-> look.entry.lon,
                            city |-> look.entry.city,
                            country |-> look.entry.country],
              entry |-> look.entry, hit |-> TRUE, fetched |-> FALSE]
        ELSE IF outcome = "error"
        THEN [response |-> get_default_location(lat, lon),
              entry |-> look.entry, hit |-> FALSE, fetched |-> TRUE]
        ELSE [response |-> location_data,
              entry |-> location_save_to_cache(look.entry, lat_rounded,
                                               lon_rounded, location_data, now),
              hit |-> FALSE, fetched |-> TRUE]

\* The orchestrator resolves the query point (api/orchestrator.py:69).
ReverseGeocode ==
    /\ location.calls < MaxGeocodes
    /\ \E use_cache \in BOOLEAN, outcome \in GeocoderOutcomes :
          LET r == reverse_geocode(fusion.lat, fusion.lon, use_cache,
                                   cache.location, clock, outcome)
          IN  /\ location' = [pc |-> "returned", calls |-> location.calls + 1,
                              use_cache |-> use_cache, at |-> clock,
                              hit |-> r.hit, fetched |-> r.fetched,
                              before |-> cache.location,
                              response |-> r.response,
                              outcome |-> IF r.fetched THEN outcome
                                          ELSE "none"]
              /\ cache' = [cache EXCEPT !.location = r.entry]
    /\ UNCHANGED adapter_vars
    /\ UNCHANGED << fetch, fusion, conv, forecast, saver, norm >>

\* Between two requests a tick passes, or a day less a tick; ticks are
\* taken in the first MaxTicks ticks of a day.
DayStep == Ticks(LOCATION_CACHE_TTL) - 1

CacheTick ==
    /\ \E d \in {1, DayStep} :
          /\ clock + d <= FusionStart + DayStep + MaxTicks
          /\ d = 1 => (clock - FusionStart) % DayStep < MaxTicks
          /\ clock' = clock + d
    /\ UNCHANGED << api_key, status, call, ncalls, streak, saved, orch >>
    /\ UNCHANGED data_vars

\* the forecasts of the requests of the cache specification: the two
\* future points with an AQI
CacheForecastLists == { q \in ForecastLists : \A i \in DOMAIN q : q[i] \in {1, 3} }

InitCache ==
    /\ api_key = [s \in Sources |-> TRUE]
    /\ status = [s \in Sources |-> NoRow]
    /\ streak = [s \in Sources |-> 0]
    /\ saved = [s \in Sources |-> 0]
    /\ clock = FusionStart
    /\ call = [t \in Threads |-> IdleCall]
    /\ ncalls = 0
    /\ orch = IdleOrch
    /\ fetch = IdleFetch
    /\ \E lat \in QueryLats, lon \in QueryLons :
          fusion = [IdleFusion EXCEPT !.lat = lat, !.lon = lon,
                                      !.table = "seeded",
                                      !.M = << Catalogue[1] >>]
    /\ cache = EmptyCache
    /\ conv = IdleConv
    /\ forecast = IdleForecast
    /\ location = IdleLocation
    /\ saver = IdleSaver
    /\ norm = IdleNorm

\* AirQualityOrchestrator.get_air_quality (api/orchestrator.py:47-107) with
\* include_forecast: the location is resolved, the current data blended and
\* the forecasts aggregated, in this order and with the request's use_cache.
ResolveLocation ==
    /\ location.calls = forecast.calls
    /\ ReverseGeocode

BlendCurrent ==
    /\ fusion.calls < location.calls
    /\ Blend
    /\ fusion'.use_cache = location.use_cache

AggregateRequested ==
    /\ forecast.calls < fusion.calls
    /\ AggregateForecasts(CacheForecastLists)
    /\ forecast'.use_cache = fusion.use_cache

\* Time passes between two requests.
BetweenRequests ==
    /\ location.calls = forecast.calls
    /\ CacheTick

NextCache ==
    \/ ResolveLocation
    \/ BlendCurrent
    \/ AggregateRequested
    \/ BetweenRequests

SpecCache == InitCache /\ [][NextCache]_vars

\* ---------------------------------------------------------------------
\* One request from the geocoder to the response:
\* AirQualityOrchestrator.get_air_quality (api/orchestrator.py:68-107) with
\* LocationService.get_region_config (location/services.py:171-202)
\* ---------------------------------------------------------------------

\* settings.AIR_QUALITY_SETTINGS['SOURCE_PRIORITY']['DEFAULT']: an ordered
\* list of source codes (the settings module that holds its value is not
\* among the sources; nothing below depends on which codes it names)
SOURCE_PRIORITY_DEFAULT == << "OPENWEATHERMAP", "WAQI" >>

\* the active RegionConfig rows, as init_data creates them
RegionConfigs ==
    [US |-> << "EPA_AIRNOW", "PURPLEAIR", "OPENWEATHERMAP", "WAQI" >>,
     CA |-> << "ECCC_AQHI", "PURPLEAIR", "OPENWEATHERMAP", "WAQI" >>]

\* country_code.upper() of the codes the model uses
upper(country_code) ==
    IF country_code = "unknown" THEN "UNKNOWN" ELSE country_code

\* LocationService.get_region_config (services.py:171-202): the row of the
\* upper-cased code, or the default configuration when there is none
get_region_config(country_code) ==
    IF upper(country_code) \in DOMAIN RegionConfigs
    THEN [country_code |-> upper(country_code),
          source_priority |-> RegionConfigs[upper(country_code)],
          has_official_data |-> TRUE]
    ELSE [country_code |-> country_code,
          source_priority |-> SOURCE_PRIORITY_DEFAULT,
          has_official_data |-> FALSE]

\* the LocationCache row of the query point before the request: none, one
\* cached a tick ago, one cached a day ago
RegionCacheEntries(lat, lon) ==
    { NoEntry } \cup
    { [exists |-> TRUE, lat |-> round3(lat), lon |-> round3(lon),
       city |-> "Los Angeles", country |-> "US", cached_at |-> at,
       hit_count |-> 0] :
         at \in {FusionStart - 1, FusionStart - Ticks(LOCATION_CACHE_TTL)} }

\* the deployment has the keys of three of the five adapters
RegionKeys == {"EPA_AIRNOW", "OPENWEATHERMAP", "WAQI"}

InitRegion ==
    /\ api_key = [s \in Sources |-> s \in RegionKeys]
    /\ status = [s \in Sources |-> NoRow]
    /\ streak = [s \in Sources |-> 0]
    /\ saved = [s \in Sources |-> 0]
    /\ clock = FusionStart
    /\ call = [t \in Threads |-> IdleCall]
    /\ ncalls = 0
    /\ orch = IdleOrch
    /\ fetch = IdleFetch
    /\ \E lat \in QueryLats, lon \in QueryLons :
          /\ fusion = [IdleFusion EXCEPT !.lat = lat, !.lon = lon]
          /\ \E e \in RegionCacheEntries(lat, lon) :
                cache = [EmptyCache EXCEPT !.location = e]
    /\ conv = IdleConv
    /\ forecast = IdleForecast
    /\ location = IdleLocation
    /\ saver = IdleSaver
    /\ norm = IdleNorm

\* orchestrator.py:69: location_service.reverse_geocode(lat, lon, use_cache)
RegionResolve ==
    /\ orch.pc = "idle"
    /\ location.pc = "idle"
    /\ ReverseGeocode

\* orchestrator.py:70-76 and 121-134: the region configuration of the
\* country of the location gives the priority list of the call list
RegionCallList ==
    /\ orch.pc = "idle"
    /\ location.pc = "returned"
    /\ LET region_code == location.response.country
           prio == get_region_config(region_code).source_priority
           list == active_adapters_of(prio, api_key, status)
       IN  orch' = [IdleOrch EXCEPT
                      !.pc = "fanout", !.run = orch.run + 1,
                      !.source_priority = prio, !.active = list,
                      !.avail = { s \in Sources : is_available(s) },
                      !.disabled = { s \in Sources :
                                       status[s].exists /\ ~status[s].is_active },
                      !.fut = [i \in 1..Len(list) |-> "new"],
                      !.outcome = [i \in 1..Len(list) |-> "none"],
                      !.late = [i \in 1..Len(list) |-> FALSE],
                      !.result = [i \in 1..Len(list) |-> << >>]]
    /\ clock' = clock + 1
    /\ UNCHANGED << api_key, status, call, ncalls, streak, saved >>
    /\ UNCHANGED data_vars

NextRegion ==
    \/ RegionResolve
    \/ RegionCallList
    \/ Submit
    \/ WorkerStart
    \/ \E i \in 1..Len(AdapterOrder) : WorkerFinish(i)
    \/ Collect
    \/ ReturnCurrent
    \/ ReturnResponse

SpecRegion == InitRegion /\ [][NextRegion]_vars

\* ---------------------------------------------------------------------
\* Concurrent blend calls on one cache key: FusionEngine._get_from_cache
\* and _save_to_cache (fusion/engine.py:280-339) statement by statement, on
\* a database that enforces unique_together and honours select_for_update
\* ---------------------------------------------------------------------

\* the queries of the concurrent requests: 34.0522 N and 34.0520 N, the
\* same key after rounding
SaverLat(t) == IF t % 2 = 1 THEN 340522 ELSE 340520
SaverLon(t) == -1182437

\* the AQI the blend of thread t computes
SaverAqi(t) == 40 + t

\* the BlendedData rows of the key of (lat, lon)
rows_of_key(rows, lat, lon) ==
    { r \in rows : r.lat = round3(lat) /\ r.lon = round3(lon) }

\* INSERT without the unique index on (lat, lon)
unique_conflict_unenforced(rows, lat, lon) == FALSE

\* fusion/models.py:38, unique_together = [['lat', 'lon']]: an INSERT of a
\* second row of the key raises IntegrityError
unique_conflict(rows, lat, lon) == rows_of_key(rows, lat, lon) # {}

\* the row update_or_create writes for thread t (engine.py:326-337)
saved_row(id, t, hit_count, now) ==
    [id |-> id, lat |-> round3(SaverLat(t)), lon |-> round3(SaverLon(t)),
     current_aqi |-> SaverAqi(t),
     cached_until |-> now + Ticks(RESPONSE_CACHE_TTL),
     hit_count |-> hit_count]

\* the tables a request may find: empty, an expired entry, a valid entry
SaverTables ==
    { {},
      { [id |-> 1, lat |-> round3(SaverLat(1)), lon |-> round3(SaverLon(1)),
         current_aqi |-> 30, cached_until |-> FusionStart - 1, hit_count |-> 0] },
      { [id |-> 1, lat |-> round3(SaverLat(1)), lon |-> round3(SaverLon(1)),
         current_aqi |-> 30, cached_until |-> FusionStart + 1, hit_count |-> 0] } }

SaverAt(t, pc) == saver.w[t].pc = pc

SaverGoto(t, pc) == [saver.w EXCEPT ![t].pc = pc]

\* blend is entered (engine.py:35-58)
SaverStart(t) ==
    /\ SaverAt(t, "idle")
    /\ \E use_cache \in BOOLEAN :
          saver' = [saver EXCEPT !.w[t].use_cache = use_cache,
                                 !.w[t].pc = IF use_cache THEN "read" ELSE "save"]
    /\ UNCHANGED adapter_vars
    /\ UNCHANGED << fetch, fusion, cache, conv, forecast, location, norm >>

\* _get_from_cache (engine.py:288-292): BlendedData.objects.get; a valid
\* entry is a hit, its hit count is saved and blend returns; an expired one
\* is kept for cached.delete()
SaverGet(t) ==
    /\ SaverAt(t, "read")
    /\ LET found == rows_of_key(saver.rows, SaverLat(t), SaverLon(t))
       IN  IF found = {}
           THEN saver' = [saver EXCEPT !.w = SaverGoto(t, "save")]
           ELSE \E r \in found :
                   IF blended_is_valid(clock, r.cached_until)
                   THEN /\ saver.lock \in {0, t}
                        /\ saver' = [saver EXCEPT
                               !.rows = (@ \ {r}) \cup
                                        {[r EXCEPT !.hit_count = @ + 1]},
                               !.w = SaverGoto(t, "done")]
                   ELSE saver' = [saver EXCEPT !.w[t].snap = r.id,
                                               !.w[t].pc = "delete"]
    /\ UNCHANGED adapter_vars
    /\ UNCHANGED << fetch, fusion, cache, conv, forecast, location, norm >>

\* cached.delete() (engine.py:310): DELETE by primary key; it waits for a
\* transaction that holds the row
SaverDelete(t) ==
    /\ SaverAt(t, "delete")
    /\ saver.lock \in {0, t}
    /\ saver' = [saver EXCEPT
           !.rows = { r \in @ : r.id # saver.w[t].snap },
           !.w = SaverGoto(t, "save")]
    /\ UNCHANGED adapter_vars
    /\ UNCHANGED << fetch, fusion, cache, conv, forecast, location, norm >>

\* update_or_create (engine.py:326): transaction.atomic,
\* select_for_update().get(lat, lon); a row found is locked until commit
SaverSelectForUpdate(t) ==
    /\ saver.w[t].pc \in {"save", "reget"}
    /\ LET found == rows_of_key(saver.rows, SaverLat(t), SaverLon(t))
       IN  IF found = {}
           THEN saver' = [saver EXCEPT
                    !.w = SaverGoto(t, IF SaverAt(t, "save") THEN "create"
                                       ELSE "done")]
           ELSE /\ saver.lock \in {0, t}
                /\ \E r \in found :
                      saver' = [saver EXCEPT !.lock = t, !.w[t].snap = r.id,
                                             !.w[t].pc = "set"]
    /\ UNCHANGED adapter_vars
    /\ UNCHANGED << fetch, fusion, cache, conv, forecast, location, norm >>

\* update_or_create, no row found: INSERT. It waits for the transaction
\* that holds a row of the key; a committed row of the key raises
\* IntegrityError and the row is fetched again.
SaverCreate(t) ==
    /\ SaverAt(t, "create")
    /\ saver.lock \in {0, t}
    /\ IF unique_conflict(saver.rows, SaverLat(t), SaverLon(t))
       THEN saver' = [saver EXCEPT !.w = SaverGoto(t, "reget")]
       ELSE saver' = [saver EXCEPT
                !.rows = @ \cup {saved_row(saver.next_id, t, 0, clock)},
                !.next_id = @ + 1, !.lock = t,
                !.order = Append(@, t),
                !.w = SaverGoto(t, "commit")]
    /\ UNCHANGED adapter_vars
    /\ UNCHANGED << fetch, fusion, cache, conv, forecast, location, norm >>

\* update_or_create, row found: the defaults are set and obj.save() updates
\* the locked row
SaverUpdate(t) ==
    /\ SaverAt(t, "set")
    /\ saver' = [saver EXCEPT
           !.rows = { IF r.id = saver.w[t].snap
                      THEN saved_row(r.id, t, r.hit_count, clock) ELSE r :
                      r \in @ },
           !.order = Append(@, t),
           !.w = SaverGoto(t, "commit")]
    /\ UNCHANGED adapter_vars
    /\ UNCHANGED << fetch, fusion, cache, conv, forecast, location, norm >>

\* the atomic block of update_or_create is left: commit, locks released
SaverCommit(t) ==
    /\ SaverAt(t, "commit")
    /\ saver' = [saver EXCEPT !.lock = 0, !.w = SaverGoto(t, "done")]
    /\ UNCHANGED adapter_vars
    /\ UNCHANGED << fetch, fusion, cache, conv, forecast, location, norm >>

InitSave ==
    /\ api_key = [s \in Sources |-> TRUE]
    /\ status = [s \in Sources |-> NoRow]
    /\ streak = [s \in Sources |-> 0]
    /\ saved = [s \in Sources |-> 0]
    /\ clock = FusionStart
    /\ call = [t \in Threads |-> IdleCall]
    /\ ncalls = 0
    /\ orch = IdleOrch
    /\ fetch = IdleFetch
    /\ fusion = IdleFusion
    /\ cache = EmptyCache
    /\ conv = IdleConv
    /\ forecast = IdleForecast
    /\ location = IdleLocation
    /\ norm = IdleNorm
    /\ \E rows \in SaverTables :
          saver = [IdleSaver EXCEPT !.rows = rows,
                                    !.next_id = Cardinality(rows) + 1]

NextSave ==
    \E t \in Threads :
        \/ SaverStart(t)
        \/ SaverGet(t)
        \/ SaverDelete(t)
        \/ SaverSelectForUpdate(t)
        \/ SaverCreate(t)
        \/ SaverUpdate(t)
        \/ SaverCommit(t)

SpecSave == InitSave /\ [][NextSave]_vars

\* ---------------------------------------------------------------------
\* Health advice of the response: get_air_quality (api/orchestrator.py:
\* 78-97) after the blend
\* ---------------------------------------------------------------------

\* default_aqi_scale of the active RegionConfig rows (init_data.py:146-161)
RegionScales == [US |-> "EPA", CA |-> "AQHI"]

\* region_config['aqi_scale'] of get_region_config (services.py:181-202)
aqi_scale_of(country_code) ==
    IF upper(country_code) \in DOMAIN RegionScales
    THEN RegionScales[upper(country_code)]
    ELSE "EPA"

\* core/utils.py:108-127 with AQHI_CATEGORIES (core/constants.py:64-100):
\* the first row that holds the value, "" when there is none.
aqhi_category(aqi) ==
    IF 1 <= aqi /\ aqi <= 3 THEN "Low Risk"
    ELSE IF 4 <= aqi /\ aqi <= 6 THEN "Moderate Risk"
    ELSE IF 7 <= aqi /\ aqi <= 10 THEN "High Risk"
    ELSE IF 10 <= aqi /\ aqi <= 15 THEN "Very High Risk"
    ELSE ""

\* convert_aqi_to_category(aqi, scale): the row of the scale's table; a
\* health message is named by the category of its row.
category_of_scale(aqi, scale) ==
    IF scale = "EPA" THEN convert_aqi_to_category(aqi) ELSE aqhi_category(aqi)

\* orchestrator.py:90-97: health_advice is set when the AQI is not null
\* and the table of the region's scale has a row for it.
add_health_advice(response, scale) ==
    IF response.aqi = None THEN response
    ELSE LET category_info == category_of_scale(response.aqi, scale) IN
         IF category_info # ""
         THEN [response EXCEPT !.keys = @ \cup {"health_advice"},
                               !.health_advice = category_info]
         ELSE response

\* the countries the location service resolved the query point to
AdviceCountries == {"US", "CA", "unknown"}

\* orchestrator.py:78-85: the current data of the request is blended.
BlendForRequest ==
    /\ fusion.pc # "returned"
    /\ Blend

\* orchestrator.py:87-97: location and health advice are added and the
\* response is returned.
AddHealthAdvice ==
    /\ fusion.pc = "returned"
    /\ fusion' = [fusion EXCEPT
           !.pc = "responded",
           !.response = add_health_advice(@, aqi_scale_of(location.response.country))]
    /\ UNCHANGED adapter_vars
    /\ UNCHANGED << fetch, cache, conv, forecast, location, saver, norm >>

InitAdvice ==
    /\ api_key = [s \in Sources |-> TRUE]
    /\ status = [s \in Sources |-> NoRow]
    /\ streak = [s \in Sources |-> 0]
    /\ saved = [s \in Sources |-> 0]
    /\ clock = FusionStart
    /\ call = [t \in Threads |-> IdleCall]
    /\ ncalls = 0
    /\ orch = IdleOrch
    /\ fetch = IdleFetch
    /\ \E lat \in QueryLats, lon \in QueryLons, M \in MeasurementLists :
          /\ fusion = [IdleFusion EXCEPT !.lat = lat, !.lon = lon,
                                         !.table = "seeded", !.M = M]
          /\ \E e \in StoredBlends(lat, lon) :
                cache = [EmptyCache EXCEPT !.blended = e]
          /\ \E country \in AdviceCountries :
                location = [IdleLocation EXCEPT
                    !.pc = "returned", !.calls = 1, !.fetched = TRUE,
                    !.response = [lat |-> lat, lon |-> lon, city |-> "",
                                  country |-> country]]
    /\ conv = IdleConv
    /\ forecast = IdleForecast
    /\ saver = IdleSaver
    /\ norm = IdleNorm

NextAdvice ==
    \/ BlendForRequest
    \/ AddHealthAdvice
    \/ FusionTick

SpecAdvice == InitAdvice /\ [][NextAdvice]_vars

\* ---------------------------------------------------------------------
\* Properties
\* ---------------------------------------------------------------------

Quiet == \A t \in Threads : ~Busy(t)

\* The step in which thread t completes the save() of _update_status
Saves(t) == call[t].pc = "update_save" /\ call'[t].pc # "update_save"

\* C1: for any source, once 10 or more failed calls have completed in a
\* row with no success in between, the source's is_active is false.
C1_DisabledAfterTenFailures ==
    \A s \in Sources :
        (Quiet /\ streak[s] >= AUTO_DISABLE_FAILURES)
            => (status[s].exists /\ ~status[s].is_active)

\* C2: once is_active of a source is false, no step of an adapter call
\* makes it true again.
C2_DisabledStaysDisabled ==
    [][ \A s \in Sources :
          (status[s].exists /\ ~status[s].is_active)
              => (status'[s].exists /\ ~status'[s].is_active) ]_vars

\* C3: is_available() is true exactly when the credential is present and
\* the health row is missing or healthy, healthy meaning is_active,
\* consecutive_failures < 5 and strictly more than 80% of the recorded
\* requests succeeded (rate 0 when nothing is recorded).
C3_RateAbove80(row) ==
    /\ row.total_requests > 0
    /\ 5 * (row.total_requests - row.total_failures) > 4 * row.total_requests

C3_IsAvailableIff ==
    \A s \in Sources :
        is_available(s) <=>
            /\ api_key[s]
            /\ \/ ~status[s].exists
               \/ /\ status[s].is_active
                  /\ status[s].consecutive_failures < 5
                  /\ C3_RateAbove80(status[s])

\* C3 witness: after a completed call, a source with its credential whose
\* row is active with no consecutive failure is unavailable because exactly
\* 80% of its requests succeeded, next to an available source without row.
C3_Witness ==
    /\ Quiet /\ ncalls > 0
    /\ \E s \in Sources :
          /\ api_key[s] /\ status[s].exists /\ status[s].is_active
          /\ status[s].consecutive_failures = 1
          /\ status[s].total_requests = 6 /\ status[s].total_failures = 2
          /\ ~is_available(s)

\* C4: in every current-data fan-out the call list is the available
\* sources of region.source_priority in that order followed by the
\* available registered adapters that the list does not name, the tasks
\* are submitted in the order of the list, fetch_current runs only on
\* adapters whose is_available() returned true when the list was built,
\* and a source whose row was switched off at that moment is not called.
C4_Expected ==
    SelectSeq(orch.source_priority,
              LAMBDA s : s \in Sources /\ s \in orch.avail)
    \o SelectSeq(AdapterOrder,
                 LAMBDA s : ~InSeq(s, orch.source_priority) /\ s \in orch.avail)

C5_RecordsOf(s) == SelectSeq(orch.all_data, LAMBDA r : r.source = s)

C5_ExactlySucceeded ==
    orch.pc = "blend" =>
        \A s \in Sources :
            C5_RecordsOf(s) =
                IF \E i \in 1..Len(orch.active) :
                      orch.active[i] = s /\ orch.outcome[i] = "data"
                THEN Records(s)
                ELSE << >>

C5_FanoutStep ==
    \/ Submit
    \/ WorkerStart
    \/ \E i \in 1..Len(AdapterOrder) : WorkerFinish(i)
    \/ Collect
    \/ ReturnCurrent

RECURSIVE C5_TasksLeft(_, _)
C5_TasksLeft(fut, i) ==
    IF i > Len(fut) THEN 0
    ELSE C5_TasksLeft(fut, i + 1)
         + (CASE fut[i] = "new" -> 4
              [] fut[i] = "queued" -> 3
              [] fut[i] = "running" -> 2
              [] fut[i] = "finished" -> 1
              [] OTHER -> 0)

C5_StepsLeft(o) == C5_TasksLeft(o.fut, 1) + (IF o.pc = "fanout" THEN 1 ELSE 0)

C5_PartialFailureTolerated ==
    /\ []C5_ExactlySucceeded
    /\ [](orch.pc = "fanout" => ENABLED C5_FanoutStep)
    /\ [][ (orch.pc = "fanout" /\ orch' # orch)
              => C5_StepsLeft(orch') < C5_StepsLeft(orch) ]_vars

\* C5 witness: a fan-out in which one adapter raised and another one's
\* request failed hands the records of two other adapters to the blend.
C5_Witness ==
    /\ orch.pc = "blend"
    /\ \E i, j, k, l \in 1..Len(orch.active) :
          /\ orch.outcome[i] = "raise" /\ orch.outcome[j] = "failed"
          /\ orch.outcome[k] = "data" /\ orch.outcome[l] = "data" /\ k # l
          /\ orch.completed = << >>
          /\ orch.fut[i] = "collected" /\ orch.fut[j] = "collected"
    /\ Len(orch.all_data) >= 2

\* C6: a finished adapter call whose log writes all succeeded has written
\* exactly one RawResponseLog row (valid bodies only: 2xx, 4xx, retries
\* exhausted, network error).
C6_OneLogRowPerCall ==
    \A t \in Threads :
        (call[t].pc = "done" /\ ~call[t].log_failed /\ call[t].body_ok)
            => call[t].rows = 1

\* C7: the save of a successful call sets last_success_at, zeroes
\* consecutive_failures, adds 1 to total_requests and leaves
\* total_failures, last_failure_at, status_message and is_active as they
\* were; the save of a failed call sets last_failure_at, adds 1 to
\* consecutive_failures, total_failures and total_requests, records the
\* error text and leaves last_success_at as it was.
C7_Effect(t) ==
    LET s == call[t].src
        old == IF status[s].exists THEN status[s] ELSE NewRow
        new == status'[s]
    IN  /\ new.exists
        /\ new.total_requests = old.total_requests + 1
        /\ IF call[t].success
           THEN /\ new.last_success_at = clock
                /\ new.consecutive_failures = 0
                /\ new.total_failures = old.total_failures
                /\ new.last_failure_at = old.last_failure_at
                /\ new.status_message = old.status_message
                /\ new.is_active = old.is_active
           ELSE /\ new.last_failure_at = clock
                /\ new.consecutive_failures = old.consecutive_failures + 1
                /\ new.total_failures = old.total_failures + 1
                /\ new.status_message = call[t].err
                /\ new.last_success_at = old.last_success_at

C7_UpdateFrame == [][ \A t \in Threads : Saves(t) => C7_Effect(t) ]_vars

\* C8: health updates of one source are serialized: after n completed
\* updates total_requests has grown by exactly n.
C8_NoLostUpdate ==
    \A s \in Sources :
        status[s].exists => status[s].total_requests = saved[s]

\* C9: a request makes at most 1 + MAX_RETRIES attempts, every attempt
\* that was followed by another one met a network error or a status among
\* 429, 500, 502, 503, 504, a call whose last answer is a non-transient
\* 4xx ends in failure, and every call terminates with a result: a call
\* in flight can always take a step and each step brings it nearer to its
\* end (success only for a 2xx answer with a decodable body).
C9_Transient(c) == c = 0 \/ c \in {429, 500, 502, 503, 504}

C9_Bounded ==
    \A t \in Threads :
        /\ call[t].attempts <= 1 + MAX_RETRIES
        /\ Len(call[t].sent) = call[t].attempts
        /\ \A i \in 1..(Len(call[t].sent) - 1) : C9_Transient(call[t].sent[i])
        /\ (call[t].pc = "done" /\ call[t].code >= 400 /\ call[t].code < 500)
               => (call[t].result = "failure" /\ ~C9_Transient(call[t].code))
        /\ call[t].pc = "done" => call[t].result \in {"success", "failure", "raised"}
        /\ (call[t].pc = "done" /\ call[t].result = "success")
               => (call[t].code = 200 /\ call[t].body_ok)
        /\ Busy(t) => ENABLED StepCall

C9_StepsLeft(c) ==
    (IF c.err = "JSONDecodeError" THEN 0 ELSE 10)
    + (CASE c.pc = "request" -> 5
         [] c.pc = "log" -> 4
         [] c.pc = "except_log" -> 3
         [] c.pc = "update_read" -> 2
         [] c.pc = "update_save" -> 1
         [] OTHER -> 0)

C10_NoAttemptWithoutCredential ==
    \A t \in Threads :
        (call[t].pc # "idle" /\ ~api_key[call[t].src]) => call[t].attempts = 0

\* C11: for every adapter, a malformed upstream payload makes
\* fetch_current return an empty list and records a failure in the
\* source's health (consecutive_failures and total_failures grow by 1); no
\* exception leaves fetch_current.
C11_FailuresBefore(field) ==
    IF fetch.before.exists THEN fetch.before[field] ELSE 0

C11_MalformedPayloadRejected ==
    (fetch.pc = "returned" /\ fetch.payload \in Malformed) =>
        /\ fetch.result = "empty"
        /\ status[fetch.src].exists
        /\ status[fetch.src].consecutive_failures
               = C11_FailuresBefore("consecutive_failures") + 1
        /\ status[fetch.src].total_failures
               = C11_FailuresBefore("total_failures") + 1

\* The step in which blend is called and returns
C12_BlendStep == fusion'.calls = fusion.calls + 1

\* the orderings of a list
C12_Permutations(q) ==
    { [i \in 1..Len(q) |-> q[p[i]]] :
        p \in { f \in [1..Len(q) -> 1..Len(q)] :
                   \A i, j \in 1..Len(q) : i # j => f[i] # f[j] } }

\* C12: for every list of measurements M and every permutation p of it,
\* with the same configuration, clock and cache state, blend(M) and
\* blend(p(M)) return the same result, including aqi, pollutants, sources
\* and the order of source_details.
C12_OrderIndependent ==
    [][C12_BlendStep =>
          \A P \in C12_Permutations(fusion.M) :
              blend(fusion.lat, fusion.lon, P, fusion.table, fusion'.use_cache,
                    cache.blended, clock, TRUE).response = fusion'.response]_vars

\* C13: two consecutive blend calls for the same location within the
\* cache TTL return identical responses (same keys and same values for
\* lat, lon, aqi, category, pollutants, sources, source_details), apart
\* from last_updated.
C13_RepeatableWithinTtl ==
    (fusion.calls >= 2 /\ fusion.at - fusion.prev_at < Ticks(RESPONSE_CACHE_TTL)) =>
        /\ fusion.response.keys = fusion.prev.keys
        /\ fusion.response.lat = fusion.prev.lat
        /\ fusion.response.lon = fusion.prev.lon
        /\ fusion.response.aqi = fusion.prev.aqi
        /\ fusion.response.category = fusion.prev.category
        /\ fusion.response.pollutants = fusion.prev.pollutants
        /\ fusion.response.sources = fusion.prev.sources
        /\ fusion.response.source_details = fusion.prev.source_details

\* a measurement older than MAX_DATA_AGE_HOURS at the instant `now`
C15_Older(sd, now) == now - sd.timestamp > Ticks(MAX_DATA_AGE_HOURS * 3600)

C15_NoneRemains == \A i \in 1..Len(fusion.M) : C15_Older(fusion.M[i], fusion.at)

C15_Unavailable(r) ==
    /\ r.aqi = None
    /\ r.category = "Unavailable"
    /\ "error" \in r.keys
    /\ r.error # ""

\* C15: when, on a cache miss or with use_cache false, no measurement
\* remains after dropping those older than MAX_DATA_AGE_HOURS (including
\* an empty list), blend returns the default 'unavailable' response: aqi
\* null, category 'Unavailable' and an error string; an error is produced
\* only in this case.
C15_UnavailableIffNoFreshData ==
    fusion.pc = "returned" =>
        /\ (~fusion.hit /\ C15_NoneRemains) => C15_Unavailable(fusion.response)
        /\ ("error" \in fusion.response.keys) => (~fusion.hit /\ C15_NoneRemains)

\* the measurements of the last call younger than MAX_DATA_AGE_HOURS
C16_Fresh ==
    SelectSeq(fusion.M,
              LAMBDA sd : fusion.at - sd.timestamp < Ticks(MAX_DATA_AGE_HOURS * 3600))

C16_Computed == fusion.pc = "returned" /\ "source_details" \in fusion.response.keys

\* C16: for every set M of fresh measurements whose AQI values all lie in
\* [0, 500] and whose weights are all positive, the blended AQI lies
\* between the minimum and the maximum AQI of M.
C16_BlendedAqiBounded ==
    (/\ C16_Computed
     /\ \A i \in 1..Len(C16_Fresh) :
           /\ C16_Fresh[i].aqi >= 0 /\ C16_Fresh[i].aqi <= 500
           /\ calculate_weight(C16_Fresh[i], fusion.table, fusion.at) > 0)
        => /\ \E i \in 1..Len(C16_Fresh) : C16_Fresh[i].aqi <= fusion.response.aqi
           /\ \E i \in 1..Len(C16_Fresh) : C16_Fresh[i].aqi >= fusion.response.aqi

\* AirNow's 42 and PurpleAir's 80 blended under the seeded weights
\* (1.0 * 0.96 and 0.85 * 0.8 * 0.9 * 0.9) into 56
C16_Witness ==
    /\ C16_Computed
    /\ Len(C16_Fresh) = 2
    /\ { C16_Fresh[i].aqi : i \in 1..2 } = {42, 80}
    /\ fusion.table = "seeded"
    /\ fusion.response.aqi = 56

\* C17 as stated: for any single measurement M, blending the one-element
\* list {M} returns an AQI equal to M.aqi.
C17_SingleMeasurementAqi ==
    (fusion.pc = "returned" /\ Len(fusion.M) = 1) =>
        fusion.response.aqi = fusion.M[1].aqi

\* C17 amended: for any single fresh measurement M with a non-null AQI
\* and a positive weight, blending the one-element list {M} on a cache miss
\* or with use_cache false returns an AQI equal to M.aqi.
C17_SingleFreshMeasurementAqi ==
    (/\ fusion.pc = "returned"
     /\ ~fusion.hit
     /\ Len(fusion.M) = 1
     /\ fusion.at - fusion.M[1].timestamp < Ticks(MAX_DATA_AGE_HOURS * 3600)
     /\ fusion.M[1].aqi # None
     /\ calculate_weight(fusion.M[1], fusion.table, fusion.at) > 0)
        => fusion.response.aqi = fusion.M[1].aqi

\* a PurpleAir sensor alone, weighted 0.5508, fifteen minutes after it
\* was seen
C17_Witness ==
    /\ fusion.pc = "returned"
    /\ ~fusion.hit
    /\ Len(fusion.M) = 1
    /\ fusion.M[1].source = "PURPLEAIR"
    /\ fusion.table = "seeded"
    /\ fusion.at - fusion.M[1].timestamp = Ticks(900)
    /\ fusion.response.aqi = 80


\* the points of the last forecast_list that are not in the past
C19_FuturePoints ==
    SelectSeq(forecast.forecast_list,
              LAMBDA f : f.timestamp = None \/ f.timestamp >= forecast.at)

\* C19: the forecast aggregator drops every forecast point whose timestamp
\* is in the past: no bucket it returns is stamped with a timestamp earlier
\* than now, and the buckets it computes are those of the points that are
\* not in the past.
C19_PastPointsDropped ==
    forecast.pc = "returned" =>
        /\ \A i \in DOMAIN forecast.result :
              forecast.result[i].timestamp >= forecast.at
        /\ ~forecast.hit =>
              forecast.result =
                  aggregate_hours(group_by_hour(C19_FuturePoints),
                                  sorted_keys(hour_keys(C19_FuturePoints)))

\* the points of the last forecast_list that have a timestamp in hour h
\* and an AQI
C20_PointsOfHour(h) ==
    SelectSeq(forecast.forecast_list,
              LAMBDA f : /\ f.timestamp # None
                         /\ f.timestamp - (f.timestamp % Ticks(3600)) = h
                         /\ f.aqi # None)

\* the hours of the last forecast_list that have a point with an AQI
C20_Hours ==
    { h \in 0..(FusionStart + 3 * Ticks(3600)) :
          h % Ticks(3600) = 0 /\ C20_PointsOfHour(h) # << >> }

\* C20: the aggregator groups the points by their timestamp truncated to
\* the hour and returns one bucket per hour that has a point with an AQI,
\* stamped with that hour and holding the rounded arithmetic mean AQI of
\* the hour's points, the buckets sorted by timestamp ascending.
C20_HourlyBuckets ==
    (forecast.pc = "returned" /\ ~forecast.hit) =>
        /\ Len(forecast.result) = Cardinality(C20_Hours)
        /\ \A i \in DOMAIN forecast.result :
              LET b == forecast.result[i]
                  points == C20_PointsOfHour(b.timestamp)
              IN  /\ b.timestamp \in C20_Hours
                  /\ 2 * (b.aqi * Len(points) - sum_aqi(points)) <= Len(points)
                  /\ 2 * (sum_aqi(points) - b.aqi * Len(points)) <= Len(points)
        /\ \A i, j \in DOMAIN forecast.result :
              i < j => forecast.result[i].timestamp < forecast.result[j].timestamp


\* C18: the PM2.5-to-AQI conversion is monotonic non-decreasing on
\* [0, 500.4]: for concentrations a <= b in that range, the values between
\* two breakpoint rows included, aqi(a) <= aqi(b).
C18_PmToAqiMonotonic ==
    (/\ conv.pc = "converted"
     /\ 0 <= conv.a /\ conv.a <= conv.b /\ conv.b <= 50040) =>
        conv.aqi_a <= conv.aqi_b


\* the last blend read an expired BlendedData entry of its key
C14_BlendedExpired ==
    /\ fusion.pc = "returned" /\ fusion.use_cache
    /\ fusion.before.exists
    /\ fusion.before.cached_until < fusion.at

\* the last reverse_geocode read a LocationCache entry of its key that is
\* older than LOCATION_CACHE_TTL
C14_LocationExpired ==
    /\ location.pc = "returned" /\ location.use_cache
    /\ location.before.exists
    /\ location.before.cached_at + Ticks(86400) < location.at

\* the AggregatedForecast rows the last aggregate_forecasts found expired
C14_AggregatedExpired ==
    IF forecast.pc = "returned" /\ forecast.use_cache
           /\ forecast.forecast_list # << >>
    THEN { r \in forecast.before : r.cached_until < forecast.at }
    ELSE {}

C21_AllReturned == \A t \in Threads : saver.w[t].pc = "done"

\* C21: concurrent cache writes for the same rounded (lat, lon) are safe:
\* at no time does the key have two entries, and once the concurrent blend
\* calls that wrote the cache have returned exactly one entry exists for
\* the key and it holds the values written by the last writer.
C21_LastWriterWins ==
    LET entries == { r \in saver.rows : r.lat = 340520 /\ r.lon = -1182440 }
    IN  /\ Cardinality(entries) <= 1
        /\ (C21_AllReturned /\ saver.order # << >>) =>
              /\ Cardinality(entries) = 1
              /\ \A r \in entries :
                    /\ r.current_aqi = 40 + saver.order[Len(saver.order)]
                    /\ r.cached_until = clock + 2

\* both calls wrote the entry, the second after the first had created it
C21_Witness ==
    /\ C21_AllReturned
    /\ Len(saver.order) = 2
    /\ saver.order[1] # saver.order[2]


\* the fetch_current calls and the fetch_forecast calls that are running
C22_CurrentRunning == { i \in 1..Len(orch.fut) : orch.fut[i] = "running" }

C22_ForecastRunning == { i \in 1..Len(orch.ffut) : orch.ffut[i] = "running" }

\* C22: within one request at no time more than 4 fetch_current calls run
\* and at no time more than 2 fetch_forecast calls run; the forecast
\* fan-out starts only after the current-data fan-out and the blend have
\* finished.
C22_FanoutWidths ==
    /\ Cardinality(C22_CurrentRunning) <= 4
    /\ Cardinality(C22_ForecastRunning) <= 2
    /\ orch.ffut # << >> =>
          /\ orch.pc \in {"forecast", "returned"}
          /\ \A i \in 1..Len(orch.fut) : orch.fut[i] = "collected"

\* five adapters are called: four calls run and the fifth waits for a
\* thread
C22_Witness ==
    /\ Len(orch.active) = 5
    /\ Cardinality(C22_CurrentRunning) = 4
    /\ orch.fut[5] = "queued"

\* C23: the orchestrator imposes a 30 s ceiling on each adapter call: a
\* call that has not completed when its ceiling expires is treated as
\* failed, and the request completes with the results of the other
\* adapters instead of waiting for it.
C23_CeilingEnforced ==
    /\ orch.pc \in {"blend", "forecast", "returned"} =>
          \A i \in 1..Len(orch.fut) :
              orch.late[i] =>
                  \A k \in 1..Len(orch.all_data) :
                      orch.all_data[k].source # orch.active[i]
    /\ (/\ orch.pc = "fanout"
        /\ \E i \in 1..Len(orch.fut) : orch.late[i]
        /\ \A i \in 1..Len(orch.fut) :
              orch.fut[i] = "collected" \/ (orch.late[i] /\ orch.fut[i] = "running"))
       => ENABLED ReturnCurrent

\* C24: when the geocoder fails, reverse_geocode returns a default location
\* with country = 'unknown' instead of raising, and the orchestrator
\* proceeds with the DEFAULT source priority list and produces a response.
C24_GeocoderFailed ==
    location.pc = "returned" /\ location.outcome \in {"not_found", "error"}

C24_DefaultLocationProceeds ==
    C24_GeocoderFailed =>
        /\ location.response.country = "unknown"
        /\ orch.pc # "idle" => orch.source_priority = SOURCE_PRIORITY_DEFAULT
        /\ orch.pc # "returned" => ENABLED NextRegion

\* the geocoder raised, and the response of the request was returned after
\* the adapters were called in the order of the DEFAULT list
C24_Witness ==
    /\ C24_GeocoderFailed
    /\ location.outcome = "error"
    /\ orch.pc = "returned"
    /\ orch.source_priority = SOURCE_PRIORITY_DEFAULT
    /\ orch.active[1] = "OPENWEATHERMAP"
    /\ orch.all_data # << >>

\* C25: every measurement produced by any adapter has aqi either absent or
\* >= 0, a quality_level in {verified, model, sensor, estimated}, and
\* pollutant keys only from {pm25, pm10, o3, no2, so2, co}, for every
\* upstream payload (including an upstream AQI of -1 or 0).
C25_MeasurementInvariants ==
    norm.pc = "returned" =>
        \A i \in DOMAIN norm.out :
            /\ norm.out[i].aqi.t = "null" \/ norm.out[i].aqi.v >= 0
            /\ norm.out[i].quality_level \in {"verified", "model", "sensor", "estimated"}
            /\ norm.out[i].pollutants \subseteq PollutantKeys

\* C26: the OpenWeatherMap adapter converts the upstream 1-5 index to the
\* EPA scale by the fixed table 1->25, 2->75, 3->125, 4->175, 5->250, so an
\* upstream main.aqi = 3 yields a measurement with AQI 125.
C26_OwmTable ==
    (norm.pc = "returned" /\ norm.source = "OPENWEATHERMAP") =>
        /\ Len(norm.out) = Len(norm.raw)
        /\ \A i \in DOMAIN norm.raw :
              \A n \in 1..5 :
                  norm.raw[i].aqi = JInt(n) =>
                      norm.out[i].aqi = JInt(<< 25, 75, 125, 175, 250 >>[n])

\* an item with main.aqi = 3 was normalised to a measurement with AQI 125
C26_Witness ==
    /\ norm.pc = "returned"
    /\ norm.source = "OPENWEATHERMAP"
    /\ norm.raw[1].aqi = JInt(3)
    /\ norm.out[1].aqi = JInt(125)

\* C27: the blended AQI is the weighted mean of the AQI values of the
\* measurements that have an AQI, rounded half away from zero (a mean of
\* exactly x.5 rounds up to x+1 for every non-negative x); when the sum of
\* those weights is 0 the blended AQI is 0.
C27_RoundHalfAwayFromZero ==
    (fusion.pc = "returned" /\ ~fusion.hit
        /\ "source_details" \in fusion.response.keys) =>
        LET ws == weighted_sources(fresh_data(fusion.M, fusion.at),
                                   fusion.table, fusion.at)
            n == aqi_weighted_sum(ws, 1)
            d == aqi_total_weight(ws, 1)
        IN  fusion.response.aqi = IF d = 0 THEN 0 ELSE (2 * n + d) \div (2 * d)

\* C28: in a measurement's weight, the confidence factor is
\* confidence_score / 100 whenever a confidence_score is present (for every
\* value from 0 to 100) and 1.0 only when it is absent, and the quality
\* factor is 1.0, 0.9, 0.8, 0.6 for verified, sensor, model, estimated and
\* 0.5 for any other tier.
C28_WeightFactors ==
    (fusion.pc = "returned" /\ ~fusion.hit
        /\ "source_details" \in fusion.response.keys) =>
        \A i \in DOMAIN fusion.M :
            LET sd == fusion.M[i]
                others == calculate_weight(
                              [sd EXCEPT !.quality_level = "verified",
                                         !.confidence_score = 100],
                              fusion.table, fusion.at) \div (10 * 20)
                quality == CASE sd.quality_level = "verified" -> 10
                             [] sd.quality_level = "sensor" -> 9
                             [] sd.quality_level = "model" -> 8
                             [] sd.quality_level = "estimated" -> 6
                             [] OTHER -> 5
                confidence == IF sd.confidence_score # None
                              THEN sd.confidence_score \div 5 ELSE 20
            IN  \E k \in DOMAIN fusion.response.source_details :
                    /\ fusion.response.source_details[k].station_name = sd.station_name
                    /\ fusion.response.source_details[k].weight =
                          round_div(others * quality * confidence,
                                    WeightUnit \div 1000)

\* C29: when blend is called with use_cache true and an entry exists for
\* the rounded (lat, lon) with now < cached_until, blend increments that
\* entry's hit count by exactly 1 and returns the cached AQI, category,
\* pollutants and sources, whatever measurements were passed in (also when
\* they are all stale or the list is empty), without rewriting the entry's
\* values or its cached_until.
C29_ValidEntryBefore ==
    /\ fusion.pc = "returned"
    /\ fusion.use_cache
    /\ fusion.before.exists
    /\ fusion.before.lat = round3(fusion.lat)
    /\ fusion.before.lon = round3(fusion.lon)
    /\ fusion.at < fusion.before.cached_until

C29_HitCountsAndReturns ==
    C29_ValidEntryBefore =>
        /\ cache.blended = [fusion.before EXCEPT !.hit_count = @ + 1]
        /\ fusion.response.aqi = fusion.before.current_aqi
        /\ fusion.response.category = fusion.before.category
        /\ fusion.response.pollutants = fusion.before.pollutants
        /\ fusion.response.sources = fusion.before.sources

\* a valid entry answered a request whose only measurement was stale: its
\* hit count went from 3 to 4 and the cached AQI was returned
C29_Witness ==
    /\ C29_ValidEntryBefore
    /\ fusion.before.hit_count = 3
    /\ cache.blended.hit_count = 4
    /\ fusion.M = << Catalogue[7] >>
    /\ fresh_data(fusion.M, fusion.at) = << >>
    /\ fusion.response.aqi = 55

\* C30: in each of the three caches (location, blended result, aggregated
\* forecast), an entry is written only after a successful computation, and
\* an entry that is read after its expiry is physically deleted, so no
\* expired entry survives a read of its key.
C30_BlendedCache ==
    fusion.pc = "returned" =>
        /\ (/\ fusion.use_cache
            /\ fusion.before.exists
            /\ fusion.before.lat = round3(fusion.lat)
            /\ fusion.before.lon = round3(fusion.lon)
            /\ fusion.before.cached_until <= fusion.at)
           => cache.blended # fusion.before
        /\ (/\ cache.blended.exists
            /\ cache.blended # fusion.before
            /\ ~fusion.hit)
           => "source_details" \in fusion.response.keys

C30_LocationCache ==
    location.pc = "returned" =>
        /\ (/\ location.use_cache
            /\ location.before.exists
            /\ ~location_is_fresh(location.at, location.before.cached_at))
           => cache.location # location.before
        /\ (/\ cache.location.exists
            /\ cache.location # location.before
            /\ ~location.hit)
           => location.outcome # "error"

C30_ForecastCache ==
    (forecast.pc = "returned" /\ forecast.use_cache
        /\ forecast.forecast_list # << >>) =>
        \A r \in forecast.before :
            (/\ r.lat = round3(fusion.lat)
             /\ r.lon = round3(fusion.lon)
             /\ r.cached_until <= forecast.at)
            => r \notin cache.aggregated

C30_CachesWriteAndExpire ==
    /\ C30_BlendedCache
    /\ C30_LocationCache
    /\ C30_ForecastCache

\* ---------------------------------------------------------------------
\* The response log and the health update of one call
\* ---------------------------------------------------------------------

\* The row _make_request leaves for an upstream answer, computed from the
\* row found before the call: one update for the outcome, and for an
\* undecodable body handled by the except branch the success update
\* followed by the failure update.
HealthAfter(before, c, now) ==
    LET row == IF before.exists THEN before ELSE NewRow IN
    IF c.err = "JSONDecodeError"
    THEN update_status_row(update_status_row(row, TRUE, "", now - 2),
                           FALSE, c.err, now - 1)
    ELSE update_status_row(row, c.result # "failure", c.err, now - 1)

\* The value _make_request returns for an upstream answer
ResultOf(c) ==
    IF c.code \in 200..299 /\ c.body_ok THEN "success"
    ELSE IF c.code \in 200..299 /\ c.err # "JSONDecodeError" THEN "raised"
    ELSE "failure"

\* C31: a failure while writing the response log never propagates: the
\* finished call has returned the value and left the health row that the
\* upstream answer alone determines, whether or not a log write failed.
C31_LogFailureSwallowed ==
    (fetch.pc = "request" /\ call[1].pc = "done") =>
        /\ call[1].result = ResultOf(call[1])
        /\ status[call[1].src] = HealthAfter(fetch.before, call[1], clock)

\* A finished call one of whose log writes failed.
C31_Witness ==
    /\ fetch.pc = "request"
    /\ call[1].pc = "done"
    /\ call[1].log_failed
    /\ call[1].result = "success"

\* C32: one log record per attempt: a finished call whose log writes all
\* succeeded has written as many records as session.request made attempts,
\* the retried ones included (stated for the calls that did not end in a
\* 4xx answer, which is logged by both branches of _make_request).
C32_OneRecordPerAttempt ==
    (call[1].pc = "done" /\ ~call[1].log_failed /\ call[1].code \notin 400..499) =>
        call[1].rows = call[1].attempts

\* C35: every call updates the health of its source exactly once: when
\* _make_request has ended, total_requests of the source is one more than
\* before the call, whatever the upstream answered and however many
\* attempts were made.
C35_OneHealthUpdatePerCall ==
    (fetch.pc = "request" /\ call[1].pc = "done") =>
        status[call[1].src].total_requests =
            (IF fetch.before.exists THEN fetch.before.total_requests ELSE 0) + 1

\* ---------------------------------------------------------------------
\* Availability after a failed call
\* ---------------------------------------------------------------------

C36_CounterOrder ==
    \A s \in Sources :
        status[s].exists =>
            /\ 0 <= status[s].consecutive_failures
            /\ status[s].consecutive_failures <= status[s].total_failures
            /\ status[s].total_failures <= status[s].total_requests

\* Two concurrent calls have both saved, one update was lost, and the row
\* records a failure.
C36_Witness ==
    \E s \in CallSources :
        /\ status[s].exists
        /\ status[s].total_requests < saved[s]
        /\ status[s].consecutive_failures > 0
        /\ \A t \in Threads : call[t].pc = "done"

\* ---------------------------------------------------------------------
\* An unhealthy source under orchestrator requests
\* ---------------------------------------------------------------------

\* The health row of s exists and is not healthy (Degraded or Disabled).
Unhealthy(s) == status[s].exists /\ ~is_healthy(status[s])

\* The request holds a call of s that it has scheduled and not finished.
InFlight(s) ==
    \/ \E i \in FutIn({"new", "queued", "running"}) : orch.active[i] = s
    \/ \E i \in FFutIn({"queued", "running"}) : orch.forecast_adapters[i] = s

\* C33: being unhealthy is absorbing under orchestrator requests: once the
\* row of a source is not healthy and no call of it is in flight, no step
\* of a request schedules a call of the source, for current data or for
\* forecasts, and no step changes its row.
C33_UnhealthyAbsorbing ==
    [][\A s \in Sources :
          (Unhealthy(s) /\ ~InFlight(s)) =>
              /\ status'[s] = status[s]
              /\ ~(\E i \in 1..Len(orch'.fut) :
                       orch'.active[i] = s /\ orch'.fut[i] \in {"new", "queued", "running"})
              /\ ~(\E i \in 1..Len(orch'.ffut) :
                       orch'.forecast_adapters[i] = s
                       /\ orch'.ffut[i] \in {"queued", "running"})]_vars

\* A forecast adapter that was available when the request arrived, failed
\* in the current-data fan-out, is Degraded (still active) and was left
\* out of the forecast fan-out that has run.
C33_Witness ==
    /\ orch.pc = "returned"
    /\ orch.all_forecasts # << >>
    /\ \E s \in orch.avail :
          /\ InSeq(s, FORECAST_ADAPTERS)
          /\ Unhealthy(s)
          /\ status[s].is_active
          /\ ~InSeq(s, orch.forecast_adapters)

\* ---------------------------------------------------------------------
\* The expiry delete under concurrent blend calls
\* ---------------------------------------------------------------------

\* C37: under concurrent blend calls on one rounded key no step deletes an
\* entry whose cached_until is in the future: the expiry delete of a
\* reader that saw the expired entry does not remove the entry another
\* call has refreshed meanwhile.
C37_ValidEntryNeverDeleted ==
    [][\A r \in saver.rows :
          blended_is_valid(clock, r.cached_until) =>
              \E q \in saver'.rows : q.id = r.id]_vars

\* ---------------------------------------------------------------------
\* What the blended cache holds
\* ---------------------------------------------------------------------

\* C38: every entry of the blended cache has an AQI that is not null: the
\* default 'unavailable' response is never written to the cache.
C38_NoUnavailableEntry ==
    /\ cache.blended.exists => cache.blended.current_aqi # None
    /\ (fusion.pc = "returned" /\ fusion.response.aqi = None) =>
          cache.blended \in {fusion.before, NoEntry}

\* A blend call that found no fresh measurement has returned the default
\* response while the table holds an entry.
C38_Witness ==
    /\ fusion.pc = "returned"
    /\ fusion.response.aqi = None
    /\ "error" \in fusion.response.keys
    /\ cache.blended.exists

\* ---------------------------------------------------------------------
\* The location cache after a geocoder failure
\* ---------------------------------------------------------------------

\* C39: when the geocoder was asked and reverse_geocode returned the
\* default location (country 'unknown'), no location-cache entry was
\* written: the table holds what the read left of the entry found before.
C39_DefaultLocationNotCached ==
    (/\ location.pc = "returned"
     /\ location.fetched
     /\ location.response.country = "unknown") =>
        cache.location \in {location.before, NoEntry}

\* ---------------------------------------------------------------------
\* Health advice and category of a response
\* ---------------------------------------------------------------------

\* C40: every response of get_air_quality with an AQI that is not null,
\* from the cache or computed, in a region of either scale, carries
\* health_advice, and it is the health message of the category that
\* current.category names.
C40_AdviceMatchesCategory ==
    (fusion.pc = "responded" /\ fusion.response.aqi # None) =>
        /\ "health_advice" \in fusion.response.keys
        /\ fusion.response.health_advice = fusion.response.category

====
